---- MODULE Spec2Model ----
(***************************************************************************)
(* A model of the ERP notice scraper: the crawl of the notice grid with    *)
(* the processing of each row (NoticeScraper, src/src/playwright/          *)
(* notice.ts), the login state machine with its single-slot session store  *)
(* (ErpSession, src/src/playwright/session.ts, and the session.txt         *)
(* helpers), the OTP lookup (getOTPWithBackoff), the scrapeNotices job and *)
(* the HTTP front end that starts it.                                      *)
(*                                                                         *)
(* The portal, the browser, the OTP service and the storage service are    *)
(* the environment: each awaited call on them is one step whose outcome is *)
(* chosen among the outcomes the call can have (a value, or a thrown       *)
(* error).  A read or a write of session.txt does what it is asked; in the *)
(* login machine a write is one step, and the section on concurrent saves  *)
(* takes it apart into the open and the write of fs.writeFile.             *)
(***************************************************************************)
EXTENDS Integers, Sequences, FiniteSets, TLC

VARIABLES
    \* ---- NoticeScraper (one scrape() call) ----
    grid,            \* the rows of #grid54, top to bottom: raw noticeat cell texts
    lastKnownNoticeAt, \* LAST_NOTICE_AT, the watermark as an ISO date-time text
    scrapePc,        \* where scrape() is: "start", "loop", "done", "failed", "hung"
    rowIdx,          \* index of the next row of the for-loop
    notices,         \* the notices array being built / returned
    examined,        \* history: rows whose noticeat cell was read
    processed,       \* history: rows handed to processRow
    behaviour,       \* what the portal, the browser and the storage do at each row
    revision,        \* the document recovery of the class: "fetch" or "intercept"
    scrapeError,     \* history: the step at which scrape() threw
    openedTabs,      \* history: rows for which the auxiliary tab was opened
    closedTabs,      \* history: rows for which close() was called on that tab
    \* ---- the portal and the session store shared by all sessions ----
    store,           \* content of session.txt (NoToken: the file does not exist)
    portalValid,     \* the ssoToken values the portal currently accepts
    issued,          \* number of tokens the portal has issued so far
    \* ---- ErpSession, one per job ----
    pc,              \* where each session is in init()/login()
    cookie,          \* the ssoToken cookie of the session's browser context
    saved,           \* savedSessionToken, the local of login()
    question,        \* the challenge text the portal displays to the session
    calls,           \* number of login() calls started on the session
    result,          \* outcome of the current/last login() call
    cause,           \* the error caught by login()'s catch block
    trace,           \* history of the current login() call
    \* ---- getOTPWithBackoff (one call) ----
    otpOptions,      \* the options of the call, defaults filled in
    otpPc,           \* "start", "attempt", "backoff", "returned", "thrown"
    currentAttempt,  \* the local currentAttempt
    currentDelayMs,  \* the local currentDelayMs
    lastError,       \* the local lastError
    otpResult,       \* what the call returned or threw
    otpResponses,    \* history: the outcome of each lookup request, in order
    otpSleeps,       \* history: the duration of each sleep, in order
    clock,           \* the time new Date() reads, in steps of the call
    otpRequestTimestamp, \* the local otpRequestTimestamp
    otpRequests,     \* history: the requestedAt of each lookup request, in order
    otpEnteredAt,    \* history: the time at which the call was entered
    otpEarlier,      \* history: the timestamp and the code of each earlier call
    \* ---- scrapeNotices, one job per session ----
    jobPc,           \* where each job is in scrapeNotices
    session,         \* the local session: TRUE when it holds the ErpSession
    newNotices,      \* number of notices scrape() returned to the job
    completion,      \* how the try/catch completed: "none", "ok", "failed"
    failedAt,        \* history: the step of the job that threw
    closeCalls,      \* history: number of ErpSession.close() calls
    posts,           \* history: number of webhook POST requests issued
    \* ---- the browser of each ErpSession ----
    browser,         \* this.browser: "none", "open", "closed", "closeFailed"
    teardowns,       \* history: number of browser.close() calls
    closeRaised,     \* history: the last close() call threw
    \* ---- concurrent writes of session.txt ----
    writing,         \* the token each job's writeFile call is writing, if any
    writeLog,        \* history: the tokens written, in the order the writes ended
    \* ---- the HTTP front end, one trigger per job ----
    serverEnv,       \* ENV: which of the server's URLs are set
    body,            \* the request body of each trigger
    credentials,     \* rollNo, password, securityAnswers of each trigger's ErpSession
    httpStatus,      \* the status of the response sent to each trigger
    background,      \* the job each trigger started: "none", "running", "ok", "failed"
    seenAtResponse   \* history: the state of the job when the response was sent

scrapeVars ==
    <<grid, lastKnownNoticeAt, scrapePc, rowIdx, notices, examined, processed,
      behaviour, revision, scrapeError, openedTabs, closedTabs>>
sharedVars == <<store, portalValid, issued>>
sessionVars == <<pc, cookie, saved, question, calls, result, cause, trace>>
otpVars ==
    <<otpOptions, otpPc, currentAttempt, currentDelayMs, lastError, otpResult,
      otpResponses, otpSleeps, clock, otpRequestTimestamp, otpRequests,
      otpEnteredAt, otpEarlier>>
jobVars == <<jobPc, session, newNotices, completion, failedAt, closeCalls, posts>>
browserVars == <<browser, teardowns, closeRaised>>
storeVars == <<writing, writeLog>>
triggerVars ==
    <<serverEnv, body, credentials, httpStatus, background, seenAtResponse>>
vars ==
    <<scrapeVars, sharedVars, sessionVars, otpVars, jobVars, browserVars,
      storeVars, triggerVars>>

(***************************************************************************)
(* Dates.  A JavaScript Date is an instant or Invalid Date (time value     *)
(* NaN).  An instant is counted in minutes on a calendar of 31-day months, *)
(* which orders the instants as the real calendar does.                    *)
(***************************************************************************)
InvalidDate == [valid |-> FALSE, t |-> 0]

Minutes(yyyy, mm, dd, hh, mi) ==
    ((((yyyy - 2000) * 12 + (mm - 1)) * 31 + (dd - 1)) * 24 + hh) * 60 + mi

\* new Date(`${year}-${month}-${day}T${timePart}`): the instant, or Invalid
\* Date when a field is out of range.
NewDate(yyyy, mm, dd, hh, mi) ==
    IF mm \in 1..12 /\ dd \in 1..31 /\ hh \in 0..23 /\ mi \in 0..59
    THEN [valid |-> TRUE, t |-> Minutes(yyyy, mm, dd, hh, mi)]
    ELSE InvalidDate

\* a <= b on Dates: the comparison of the time values, false when either is NaN.
DateLe(a, b) == a.valid /\ b.valid /\ a.t <= b.t

(***************************************************************************)
(* Cell texts.  The raw text of a noticeat cell is padding (white space    *)
(* around it, or none) and its parts: the pieces between single spaces,    *)
(* the first of which is the pieces between "-" and the second the pieces  *)
(* between ":".  "05-01-2023 10:00" is <<<<5, 1, 2023>>, <<10, 0>>>>.      *)
(***************************************************************************)
Cell(pad, parts) == [pad |-> pad, parts |-> parts]

\* textContent()?.trim(): the text without its padding.
TrimCell(raw) == raw.parts

\* !noticeAtText: the trimmed text is empty (or textContent was null).
IsBlank(text) == text = <<>>

\* The text split on " " and "-", reordered into an ISO text and parsed.
ParseNoticeAt(text) ==
    IF Len(text) >= 2 /\ Len(text[1]) >= 3 /\ Len(text[2]) = 2
    THEN LET datePart == text[1]
             timePart == text[2]
             day == datePart[1]
             month == datePart[2]
             year == datePart[3]
         IN  NewDate(year, month, day, timePart[1], timePart[2])
    ELSE InvalidDate

\* new Date(this.LAST_NOTICE_AT) on an ISO text <<yyyy, mm, dd, hh, mi>>.
ParseWatermark(iso) == NewDate(iso[1], iso[2], iso[3], iso[4], iso[5])

\* The break condition with its operands exchanged.
ReachedKnownSwapped(noticeDate, lastKnownDate) == DateLe(lastKnownDate, noticeDate)

\* The break condition with < in the place of <=.
ReachedKnownStrict(noticeDate, lastKnownDate) ==
    noticeDate.valid /\ lastKnownDate.valid /\ noticeDate.t < lastKnownDate.t

\* noticeDate <= lastKnownDate, the break condition of the loop.
ReachedKnown(noticeDate, lastKnownDate) == DateLe(noticeDate, lastKnownDate)

(***************************************************************************)
(* The inputs of a crawl.                                                  *)
(***************************************************************************)
MaxRows == 3

NoticeAtTexts ==
    { <<<<5, 1, 2023>>, <<10, 0>>>>,      \* 05-01-2023 10:00
      <<<<3, 1, 2023>>, <<9, 0>>>>,       \* 03-01-2023 09:00
      <<<<1, 1, 2023>>, <<0, 0>>>>,       \* 01-01-2023 00:00
      <<<<31, 12, 2022>>, <<23, 0>>>>,    \* 31-12-2022 23:00
      <<<<5, 1, 2023>>>>,                 \* 05-01-2023 (no time)
      <<>> }                              \* blank

Cells == { Cell(FALSE, p) : p \in NoticeAtTexts } \cup { Cell(TRUE, <<>>) }

Watermarks ==
    { <<2023, 1, 1, 0, 0>>,               \* 2023-01-01T00:00
      <<2023, 1, 3, 9, 0>>,               \* 2023-01-03T09:00
      <<2022, 12, 1, 0, 0>> }             \* 2022-12-01T00:00

Grids == UNION { [1..n -> Cells] : n \in 0..MaxRows }

\* The grids of SpecCrawl: rows newer than its watermark and rows at it.
MaxCrawlRows == 2

CrawlCells ==
    { Cell(FALSE, <<<<5, 1, 2023>>, <<10, 0>>>>),     \* 05-01-2023 10:00
      Cell(FALSE, <<<<1, 1, 2023>>, <<0, 0>>>>) }     \* 01-01-2023 00:00

CrawlGrids == UNION { [1..n -> CrawlCells] : n \in 0..MaxCrawlRows }

\* The two revisions of NoticeScraper in notice.ts, named after the way each
\* recovers a document.
Revisions == {"fetch", "intercept"}

(***************************************************************************)
(* NoticeScraper.scrape()                                                  *)
(***************************************************************************)
\* What processRow meets at one row: the outcome of each awaited call on the
\* portal, the browser and the storage service.
\*   fields   the four textContent() reads of processRow: "ok", "throws"
\*   detail   the detail dialog of the notice: "content", "fails" (a click or
\*            a wait throws, a timeout included)
\*   title    getAttribute("title") of the notice link: "text", "none", "throws"
\*   link     textContent() of the link of the view1 cell: "Download",
\*            "other", "throws"
\*   dialog   the download dialog and its iframe: "src" (an absolute URL),
\*            "badsrc" (a src that is no absolute URL), "nosrc", "fails"
\*   tab      the auxiliary tab of uploadDocument: "openThrows" (newPage()
\*            throws), "loadFails" (goto or waitForLoadState throws),
\*            "noResponse" (the tab loads, no response matches the viewer
\*            pattern), "bodyFails" (response.body() throws in the listener),
\*            "noBuffer" (body() yields nothing), "body"
\*   get      page.request.get of downloadAndUploadDocument: "ok", "notOk",
\*            "throws" (body() throwing included)
\*   upload   uploadDocumentToStorage: "url", "rejects"
\*   tabClose newPage.close(): "ok", "throws"
AllWell ==
    [fields |-> "ok", detail |-> "content", title |-> "text", link |-> "other",
     dialog |-> "src", tab |-> "body", get |-> "ok", upload |-> "url",
     tabClose |-> "ok"]

\* A row with an attachment that is recovered.
WithDocument == [AllWell EXCEPT !.link = "Download"]

\* The rows of SpecScrape: processRow returns a notice or throws.
SimpleBehaviours == {AllWell, [AllWell EXCEPT !.fields = "throws"]}

\* The rows of SpecCrawl: every way a row can go, one step failing at a time,
\* and the failures of the detail view combined with an attachment.
Behaviours ==
    { AllWell,
      WithDocument,
      [AllWell EXCEPT !.fields = "throws"],
      [AllWell EXCEPT !.detail = "fails"],
      [AllWell EXCEPT !.detail = "fails", !.title = "none"],
      [AllWell EXCEPT !.detail = "fails", !.title = "throws"],
      [AllWell EXCEPT !.link = "throws"],
      [WithDocument EXCEPT !.detail = "fails"],
      [WithDocument EXCEPT !.dialog = "fails"],
      [WithDocument EXCEPT !.dialog = "nosrc"],
      [WithDocument EXCEPT !.dialog = "badsrc"],
      [WithDocument EXCEPT !.tab = "openThrows", !.get = "throws"],
      [WithDocument EXCEPT !.tab = "loadFails", !.get = "notOk"],
      [WithDocument EXCEPT !.tab = "loadFails", !.tabClose = "throws"],
      [WithDocument EXCEPT !.tab = "noResponse"],
      [WithDocument EXCEPT !.tab = "bodyFails"],
      [WithDocument EXCEPT !.tab = "noBuffer"],
      [WithDocument EXCEPT !.upload = "rejects"],
      [WithDocument EXCEPT !.tabClose = "throws"] }

\* documentUrl: null
NoDocument == "null"

\* A call that returns v, and a call that throws.
Returns(v) == [kind |-> "returns", value |-> v]
Throws == [kind |-> "throws", value |-> "error"]

\* An extractNoticeText without its catch block.
ExtractNoticeTextNoFallback(b) ==
    IF b.detail = "content" THEN Returns("content") ELSE Throws

\* extractNoticeText: the content of the detail dialog; when a step of the
\* try block throws, the title attribute of the link, trimmed, or "".  The
\* read of the attribute is in the catch block: when it throws, the
\* function throws.
ExtractNoticeText(b) ==
    IF b.detail = "content" THEN Returns("content")
    ELSE IF b.title = "throws" THEN Throws
    ELSE Returns(IF b.title = "text" THEN "title" ELSE "")

\* extractDocumentUrl: the read of the link text is before the try block;
\* null unless the text is "Download"; then the src of the dialog's iframe,
\* or null when a step throws or there is no src.  The "intercept" revision
\* parses the src with new URL(), which throws, inside the try block, on a
\* src that is no absolute URL; the "fetch" revision returns the src as is.
ExtractDocumentUrl(b, rev) ==
    IF b.link = "throws" THEN Throws
    ELSE IF b.link # "Download" THEN Returns(NoDocument)
    ELSE IF b.dialog \in {"fails", "nosrc"} THEN Returns(NoDocument)
    ELSE IF b.dialog = "badsrc"
    THEN Returns(IF rev = "intercept" THEN NoDocument ELSE "badsrc")
    ELSE Returns("src")

\* uploadDocumentToStorage: the public URL, or it throws.
UploadDocumentToStorage(b) ==
    IF b.upload = "url" THEN Returns("uploaded") ELSE Throws

\* downloadAndUploadDocument ("fetch"): everything is inside one try block
\* whose catch block returns null; a response that is not ok returns null;
\* a URL that is not absolute makes request.get throw.  No tab is opened.
DownloadAndUploadDocument(pdfUrl, b) ==
    LET stored == UploadDocumentToStorage(b)
        documentUrl ==
            IF pdfUrl = "badsrc" \/ b.get # "ok" \/ stored.kind = "throws"
            THEN NoDocument
            ELSE stored.value
    IN  [kind |-> "returns", value |-> documentUrl,
         opened |-> FALSE, closed |-> FALSE]

\* A finally block that closes the tab only when the try block returned.
ClosesTabOnReturn(exit) == exit = "return"

\* finally { await newPage.close(); } runs whether the try block returned
\* or its catch block did.
ClosesTab(exit) == TRUE

\* uploadDocument ("intercept").  newPage() is awaited before the try block:
\* when it throws, the function throws.  await pdfResponsePromise has no
\* timeout: the promise is settled only by the listener of a matching
\* response, and a listener in which body() throws rethrows in its own
\* async function and settles nothing, so in both cases the function never
\* returns and the tab stays open.  Every other failure reaches the catch
\* block, which returns null.  newPage.close() is awaited in the finally
\* block: when it throws, the function throws.
UploadDocument(pdfUrl, b) ==
    IF b.tab = "openThrows"
    THEN [kind |-> "throws", value |-> NoDocument,
          opened |-> FALSE, closed |-> FALSE]
    ELSE IF b.tab \in {"noResponse", "bodyFails"}
    THEN [kind |-> "hangs", value |-> NoDocument,
          opened |-> TRUE, closed |-> FALSE]
    ELSE LET stored == UploadDocumentToStorage(b)
             documentUrl ==
                 IF b.tab = "body" /\ stored.kind = "returns"
                 THEN stored.value
                 ELSE NoDocument
             exit == IF documentUrl = NoDocument THEN "catch" ELSE "return"
             closes == ClosesTab(exit)
         IN  [kind |-> IF closes /\ b.tabClose = "throws"
                       THEN "throws" ELSE "returns",
              value |-> documentUrl,
              opened |-> TRUE, closed |-> closes]

\* processRow: the four cells, the text, the URL of the document and, when
\* there is one, its recovery; nothing is caught here.
ProcessRow(b, rev) ==
    LET text == ExtractNoticeText(b)
        url == ExtractDocumentUrl(b, rev)
        doc == IF rev = "intercept"
               THEN UploadDocument(url.value, b)
               ELSE DownloadAndUploadDocument(url.value, b)
    IN  IF b.fields = "throws" \/ text.kind = "throws" \/ url.kind = "throws"
        THEN [kind |-> "throws", noticeText |-> "", documentUrl |-> NoDocument,
              opened |-> FALSE, closed |-> FALSE]
        ELSE IF url.value = NoDocument
        THEN [kind |-> "returns", noticeText |-> text.value,
              documentUrl |-> NoDocument, opened |-> FALSE, closed |-> FALSE]
        ELSE [kind |-> doc.kind, noticeText |-> text.value,
              documentUrl |-> doc.value,
              opened |-> doc.opened, closed |-> doc.closed]

\* The notice processRow returns for a row; row is the row's index, kept to
\* tell which row a notice came from.
Notice(r, out) ==
    [noticeAt |-> TrimCell(grid[r]), row |-> r,
     noticeText |-> out.noticeText, documentUrl |-> out.documentUrl]

\* A result built by adding each notice at the front.
PushFront(list, notice) == <<notice>> \o list

\* notices.push(notice)
Push(list, notice) == Append(list, notice)

\* A scrape() that throws when the grid has no row.
AfterNavigateNeedsRows(n) == IF n = 0 THEN "failed" ELSE "loop"

\* After the rows are read: if (rows.length === 0) return notices; in the
\* "fetch" revision the loop over no row ends at once.
AfterNavigate(n) == IF n = 0 THEN "done" ELSE "loop"

\* Navigation to the grid and the read of its rows: it throws (a timeout, a
\* missing frame), or the loop starts; an empty grid returns at once.
ScrapeNavigate ==
    /\ scrapePc = "start"
    /\ \/ /\ scrapePc' = "failed"
          /\ scrapeError' = "navigation"
       \/ /\ scrapePc' = AfterNavigate(Len(grid))
          /\ scrapeError' = IF AfterNavigate(Len(grid)) = "failed" THEN "rows" ELSE "none"
    /\ UNCHANGED <<grid, lastKnownNoticeAt, rowIdx, notices, examined, processed>>
    /\ UNCHANGED <<behaviour, revision, openedTabs, closedTabs>>
    /\ UNCHANGED <<sharedVars, sessionVars, otpVars, jobVars, browserVars, storeVars, triggerVars>>

\* One iteration of the for-loop over the rows.  The read of the noticeat cell
\* is outside the try of the row: when it throws, scrape() throws.  What
\* processRow throws is caught and logged, and the loop goes on; a processRow
\* that never returns leaves scrape() where it is.
ScrapeRow ==
    /\ scrapePc = "loop"
    /\ rowIdx <= Len(grid)
    /\ \/ /\ scrapePc' = "failed"
          /\ scrapeError' = "noticeAt"
          /\ UNCHANGED <<rowIdx, notices, examined, processed, openedTabs, closedTabs>>
       \/ LET noticeAtText == TrimCell(grid[rowIdx])
              noticeDate == ParseNoticeAt(noticeAtText)
              lastKnownDate == ParseWatermark(lastKnownNoticeAt)
              out == ProcessRow(behaviour[rowIdx], revision)
          IN  /\ examined' = examined \cup {rowIdx}
              /\ UNCHANGED scrapeError
              /\ IF IsBlank(noticeAtText)
                 THEN \* continue
                      /\ rowIdx' = rowIdx + 1
                      /\ UNCHANGED <<scrapePc, notices, processed, openedTabs, closedTabs>>
                 ELSE IF ReachedKnown(noticeDate, lastKnownDate)
                 THEN \* break
                      /\ scrapePc' = "done"
                      /\ UNCHANGED <<rowIdx, notices, processed, openedTabs, closedTabs>>
                 ELSE /\ processed' = processed \cup {rowIdx}
                      /\ openedTabs' = IF out.opened THEN openedTabs \cup {rowIdx} ELSE openedTabs
                      /\ closedTabs' = IF out.closed THEN closedTabs \cup {rowIdx} ELSE closedTabs
                      /\ IF out.kind = "hangs"
                         THEN /\ scrapePc' = "hung"
                              /\ UNCHANGED <<rowIdx, notices>>
                         ELSE /\ rowIdx' = rowIdx + 1
                              /\ notices' = IF out.kind = "returns"
                                            THEN Push(notices, Notice(rowIdx, out))
                                            ELSE notices
                              /\ UNCHANGED scrapePc
    /\ UNCHANGED <<grid, lastKnownNoticeAt, behaviour, revision>>
    /\ UNCHANGED <<sharedVars, sessionVars, otpVars, jobVars, browserVars, storeVars, triggerVars>>

\* The loop has no row left: return notices.
ScrapeReturn ==
    /\ scrapePc = "loop"
    /\ rowIdx > Len(grid)
    /\ scrapePc' = "done"
    /\ UNCHANGED <<grid, lastKnownNoticeAt, rowIdx, notices, examined, processed>>
    /\ UNCHANGED <<behaviour, revision, scrapeError, openedTabs, closedTabs>>
    /\ UNCHANGED <<sharedVars, sessionVars, otpVars, jobVars, browserVars, storeVars, triggerVars>>

(***************************************************************************)
(* Tokens, texts and credentials of the login.                             *)
(***************************************************************************)
MaxTokens == 2
MaxLogins == 2
maxAttempts == 4

Sessions == {"j1", "j2"}
NoToken == 0
Tokens == 1..MaxTokens

\* String.prototype.trim on a text given as its sequence of characters.
RECURSIVE TrimLeft(_)
TrimLeft(t) == IF t # <<>> /\ Head(t) = " " THEN TrimLeft(Tail(t)) ELSE t

RECURSIVE TrimRight(_)
TrimRight(t) ==
    IF t # <<>> /\ t[Len(t)] = " " THEN TrimRight(SubSeq(t, 1, Len(t) - 1)) ELSE t

TrimText(t) == TrimRight(TrimLeft(t))

\* The texts the portal may show in #question.
QuestionTexts ==
    { <<"a">>, <<" ", "a", " ">>, <<"b">>, <<" ", "b">>, <<" ">>, <<>> }

\* this.securityAnswers: three entries, keys and answers trimmed and not empty.
securityAnswers ==
    (<<"a">> :> "x") @@ (<<"c">> :> "y") @@ (<<"d">> :> "z")

\* Another answer map of three entries.
otherAnswers ==
    (<<"b">> :> "x") @@ (<<"c">> :> "y") @@ (<<"d">> :> "w")

\* The private fields the constructor of ErpSession sets; nothing assigns
\* them afterwards.
DefaultCredentials ==
    [rollNo |-> "21CS10001", password |-> "pw1", securityAnswers |-> securityAnswers]
Credentials ==
    [rollNo : {"21CS10001", "21CS10002"}, password : {"pw1", "pw2"},
     securityAnswers : {securityAnswers, otherAnswers}]

\* A lookup that finds an answer for every question.
HasAnswerAlways(q, answers) == TRUE

\* const answer = this.securityAnswers[question]; !answer is its absence.
HasAnswer(q, answers) == q \in DOMAIN answers

IdleTrace ==
    [probe1 |-> "none", probe2 |-> "none", fills |-> 0, asked |-> FALSE,
     answered |-> FALSE, otpClicked |-> FALSE, lookups |-> 0, otp |-> FALSE,
     submitted |-> FALSE, accepted |-> "none",
     wrote |-> NoToken, wroteValid |-> FALSE, steps |-> <<>>, changed |-> FALSE]

LoginPcs ==
    {"probe1", "saveAlive", "read", "probe2", "nav", "fill", "question",
     "otpClick", "otpPoll", "otpSubmit", "save"}

\* No login() call is running on the session.
Idle(s) == pc[s] \notin LoginPcs

(***************************************************************************)
(* ErpSession                                                              *)
(***************************************************************************)
\* A catch block that puts the password in the message of its error.
LoginErrorWithPassword(c, cred) ==
    [message |-> "Login failed for roll number", rollNo |-> cred.rollNo,
     detail |-> cred.password]

\* The error login() throws to its caller when the error c ended it: the fixed
\* message of line 275 when there is no page, and else the message of the
\* catch block with this.rollNo in it.  The caught error goes to the log and
\* is not made the cause of the new one.
LoginError(c, cred) ==
    IF c = "BrowserNotInitialized"
    THEN [message |-> "Browser not initialized. Call init() first.",
          rollNo |-> "", detail |-> ""]
    ELSE [message |-> "Login failed for roll number", rollNo |-> cred.rollNo,
          detail |-> ""]

\* login()'s catch block: the error is logged and a new Error is thrown.
Fail(s, c) ==
    /\ pc' = [pc EXCEPT ![s] = "ready"]
    /\ result' = [result EXCEPT ![s] = "failed"]
    /\ cause' = [cause EXCEPT ![s] = c]

\* login() returns.
Return(s) ==
    /\ pc' = [pc EXCEPT ![s] = "ready"]
    /\ result' = [result EXCEPT ![s] = "ok"]
    /\ UNCHANGED cause

\* init(): a fresh browser context (no cookies); or chromium.launch throws
\* and this.browser stays null; or newContext/newPage throws after the launch.
SessionInit(s) ==
    /\ pc[s] = "new"
    /\ \/ /\ pc' = [pc EXCEPT ![s] = "ready"]
          /\ browser' = [browser EXCEPT ![s] = "open"]
       \/ /\ pc' = [pc EXCEPT ![s] = "initFailed"]
          /\ browser' \in {browser, [browser EXCEPT ![s] = "open"]}
    /\ UNCHANGED <<cookie, saved, question, calls, result, cause, trace>>
    /\ UNCHANGED <<teardowns, closeRaised>>
    /\ UNCHANGED <<sharedVars, scrapeVars, otpVars, jobVars, storeVars, triggerVars>>

\* login() on a session without a page: it throws before its try block.
LoginUninitialized(s) ==
    /\ pc[s] \in {"new", "initFailed"}
    /\ calls[s] < MaxLogins
    /\ calls' = [calls EXCEPT ![s] = @ + 1]
    /\ result' = [result EXCEPT ![s] = "failed"]
    /\ cause' = [cause EXCEPT ![s] = "BrowserNotInitialized"]
    /\ UNCHANGED <<pc, cookie, saved, question, trace>>
    /\ UNCHANGED <<sharedVars, scrapeVars, otpVars, jobVars, browserVars, storeVars, triggerVars>>

\* login() is called on an initialized session.
LoginStart(s) ==
    /\ pc[s] = "ready"
    /\ calls[s] < MaxLogins
    /\ calls' = [calls EXCEPT ![s] = @ + 1]
    /\ pc' = [pc EXCEPT ![s] = "probe1"]
    /\ result' = [result EXCEPT ![s] = "running"]
    /\ cause' = [cause EXCEPT ![s] = "none"]
    /\ trace' = [trace EXCEPT ![s] = IdleTrace]
    /\ saved' = [saved EXCEPT ![s] = NoToken]
    /\ question' = [question EXCEPT ![s] = <<>>]
    /\ UNCHANGED cookie
    /\ UNCHANGED <<sharedVars, scrapeVars, otpVars, jobVars, browserVars, storeVars, triggerVars>>

\* isSessionAlive(): the welcome page stays iff the portal accepts the cookie.
IsSessionAlive(s) == cookie[s] \in portalValid

\* login() without the early return of an alive session.
AfterFirstProbeNoSkip(alive) == "read"

\* Where login() goes after the first probe.
AfterFirstProbe(alive) == IF alive THEN "saveAlive" ELSE "read"

\* login() without the early return of an alive restored token.
AfterSecondProbeNoSkip(alive) == "nav"

\* login() persisting the token on the restored-token path too.
AfterSecondProbeSave(alive) == IF alive THEN "save" ELSE "nav"

\* Where login() goes after the probe of the restored token ("return": it returns).
AfterSecondProbe(alive) == IF alive THEN "return" ELSE "nav"

\* const isAlive = await this.isSessionAlive()
Probe1(s) ==
    /\ pc[s] = "probe1"
    /\ \/ /\ Fail(s, "NavigationError")
          /\ UNCHANGED trace
       \/ /\ pc' = [pc EXCEPT ![s] = AfterFirstProbe(IsSessionAlive(s))]
          /\ trace' = [trace EXCEPT ![s].probe1 =
                          IF IsSessionAlive(s) THEN "alive" ELSE "stale"]
          /\ UNCHANGED <<result, cause>>
    /\ UNCHANGED <<cookie, saved, question, calls>>
    /\ UNCHANGED <<sharedVars, scrapeVars, otpVars, jobVars, browserVars, storeVars, triggerVars>>

\* A _saveSessionToken() that empties session.txt before it throws.
StoreOnMissingTokenEmptied(content) == NoToken

\* session.txt after _saveSessionToken() found no ssoToken cookie: the throw
\* comes before the call of saveSessionTokenToFile.
StoreOnMissingToken(content) == content

\* _saveSessionToken(): the ssoToken cookie is written to session.txt, or it is
\* missing and the call throws.
SaveSessionToken(s) ==
    /\ pc[s] \in {"saveAlive", "save"}
    /\ IF cookie[s] = NoToken
       THEN /\ Fail(s, "SessionTokenMissing")
            /\ store' = StoreOnMissingToken(store)
            /\ trace' = [trace EXCEPT ![s].steps = Append(@, "save"),
                                      ![s].changed = @ \/ store' # store]
       ELSE /\ store' = cookie[s]
            /\ trace' = [trace EXCEPT ![s].wrote = cookie[s],
                                      ![s].wroteValid = cookie[s] \in portalValid,
                                      ![s].steps = Append(@, "save"),
                                      ![s].changed = @ \/ store' # store]
            /\ Return(s)
    /\ UNCHANGED <<cookie, saved, question, calls, portalValid, issued>>
    /\ UNCHANGED <<scrapeVars, otpVars, jobVars, browserVars, storeVars, triggerVars>>

\* readSessionTokenFromFile(), and the injection of the token when there is one.
ReadStore(s) ==
    /\ pc[s] = "read"
    /\ saved' = [saved EXCEPT ![s] = store]
    /\ IF store # NoToken
       THEN /\ cookie' = [cookie EXCEPT ![s] = store]
            /\ pc' = [pc EXCEPT ![s] = "probe2"]
       ELSE /\ pc' = [pc EXCEPT ![s] = "nav"]
            /\ UNCHANGED cookie
    /\ UNCHANGED <<question, calls, result, cause, trace>>
    /\ UNCHANGED <<sharedVars, scrapeVars, otpVars, jobVars, browserVars, storeVars, triggerVars>>

\* const isValidSession = await this.isSessionAlive()
Probe2(s) ==
    /\ pc[s] = "probe2"
    /\ \/ /\ Fail(s, "NavigationError")
          /\ UNCHANGED trace
       \/ /\ trace' = [trace EXCEPT ![s].probe2 =
                          IF IsSessionAlive(s) THEN "alive" ELSE "stale"]
          /\ IF AfterSecondProbe(IsSessionAlive(s)) = "return"
             THEN Return(s)
             ELSE /\ pc' = [pc EXCEPT ![s] = AfterSecondProbe(IsSessionAlive(s))]
                  /\ UNCHANGED <<result, cause>>
    /\ UNCHANGED <<cookie, saved, question, calls>>
    /\ UNCHANGED <<sharedVars, scrapeVars, otpVars, jobVars, browserVars, storeVars, triggerVars>>

\* The full login path without the call of _handleSecurityQuestion.
NextStepNoQuestion(step) ==
    CASE step = "nav" -> "fill"
      [] step = "fill" -> "otpClick"
      [] step = "question" -> "otpClick"
      [] step = "otpClick" -> "otpPoll"
      [] step = "otpPoll" -> "otpSubmit"
      [] step = "otpSubmit" -> "save"

\* A full login path that answers the challenge after the OTP is submitted.
NextStepQuestionLast(step) ==
    CASE step = "nav" -> "fill"
      [] step = "fill" -> "otpClick"
      [] step = "otpClick" -> "otpPoll"
      [] step = "otpPoll" -> "otpSubmit"
      [] step = "otpSubmit" -> "question"
      [] step = "question" -> "save"

\* The full login path, lines 310-315: the step that follows each step.
NextStep(step) ==
    CASE step = "nav" -> "fill"
      [] step = "fill" -> "question"
      [] step = "question" -> "otpClick"
      [] step = "otpClick" -> "otpPoll"
      [] step = "otpPoll" -> "otpSubmit"
      [] step = "otpSubmit" -> "save"

\* _navigateToLoginPage(): goto and the wait for the credential form.
NavigateToLoginPage(s) ==
    /\ pc[s] = "nav"
    /\ \/ /\ Fail(s, "NavigationError")
       \/ /\ pc' = [pc EXCEPT ![s] = NextStep("nav")]
          /\ UNCHANGED <<result, cause>>
    /\ trace' = [trace EXCEPT ![s].steps = Append(@, "nav")]
    /\ UNCHANGED <<cookie, saved, question, calls>>
    /\ UNCHANGED <<sharedVars, scrapeVars, otpVars, jobVars, browserVars, storeVars, triggerVars>>

\* _fillCredentials(): the identifier and the password are filled in.
FillCredentials(s) ==
    /\ pc[s] = "fill"
    /\ \/ /\ Fail(s, "FillError")
          /\ trace' = [trace EXCEPT ![s].steps = Append(@, "fill")]
       \/ /\ pc' = [pc EXCEPT ![s] = NextStep("fill")]
          /\ trace' = [trace EXCEPT ![s].fills = @ + 2,
                                    ![s].steps = Append(@, "fill")]
          /\ UNCHANGED <<result, cause>>
    /\ UNCHANGED <<cookie, saved, question, calls>>
    /\ UNCHANGED <<sharedVars, scrapeVars, otpVars, jobVars, browserVars, storeVars, triggerVars>>

\* _handleSecurityQuestion(): the panel never shows, or the portal displays a
\* text q, which is trimmed and looked up in the answer map.
HandleSecurityQuestion(s) ==
    /\ pc[s] = "question"
    /\ \/ /\ Fail(s, "SelectorTimeout")
          /\ trace' = [trace EXCEPT ![s].steps = Append(@, "question")]
          /\ UNCHANGED question
       \/ \E q \in QuestionTexts :
             /\ question' = [question EXCEPT ![s] = q]
             /\ IF TrimText(q) = <<>>
                THEN /\ Fail(s, "QuestionTextMissing")
                     /\ trace' = [trace EXCEPT ![s].asked = TRUE,
                                               ![s].steps = Append(@, "question")]
                ELSE IF ~HasAnswer(TrimText(q), credentials[s].securityAnswers)
                THEN /\ Fail(s, "ChallengeAnswerMissing")
                     /\ trace' = [trace EXCEPT ![s].asked = TRUE,
                                               ![s].steps = Append(@, "question")]
                ELSE /\ pc' = [pc EXCEPT ![s] = NextStep("question")]
                     /\ trace' = [trace EXCEPT ![s].asked = TRUE,
                                               ![s].answered = TRUE,
                                               ![s].steps = Append(@, "question")]
                     /\ UNCHANGED <<result, cause>>
    /\ UNCHANGED <<cookie, saved, calls>>
    /\ UNCHANGED <<sharedVars, scrapeVars, otpVars, jobVars, browserVars, storeVars, triggerVars>>

\* _submitOtp(), its first line: the click on the OTP request button.
RequestOtp(s) ==
    /\ pc[s] = "otpClick"
    /\ \/ /\ Fail(s, "ClickError")
          /\ trace' = [trace EXCEPT ![s].steps = Append(@, "otpClick")]
       \/ /\ pc' = [pc EXCEPT ![s] = NextStep("otpClick")]
          /\ trace' = [trace EXCEPT ![s].otpClicked = TRUE,
                                    ![s].steps = Append(@, "otpClick")]
          /\ UNCHANGED <<result, cause>>
    /\ UNCHANGED <<cookie, saved, question, calls>>
    /\ UNCHANGED <<sharedVars, scrapeVars, otpVars, jobVars, browserVars, storeVars, triggerVars>>

\* getOTPWithBackoff(): the code arrives on lookup k, or all maxAttempts
\* lookups end without one and the call throws.
FetchOtp(s) ==
    /\ pc[s] = "otpPoll"
    /\ \/ /\ Fail(s, "OtpTimeout")
          /\ trace' = [trace EXCEPT ![s].lookups = maxAttempts,
                                    ![s].steps = Append(@, "otpPoll")]
       \/ \E k \in 1..maxAttempts :
             /\ pc' = [pc EXCEPT ![s] = NextStep("otpPoll")]
             /\ trace' = [trace EXCEPT ![s].lookups = k, ![s].otp = TRUE,
                                       ![s].steps = Append(@, "otpPoll")]
             /\ UNCHANGED <<result, cause>>
    /\ UNCHANGED <<cookie, saved, question, calls>>
    /\ UNCHANGED <<sharedVars, scrapeVars, otpVars, jobVars, browserVars, storeVars, triggerVars>>

\* _submitOtp(), its last lines: the OTP is filled in and the form submitted;
\* the fill throws, or the click does.  The portal accepts the login and
\* issues a new ssoToken cookie, or it does not and the cookies of the
\* context stay as they were.
SubmitOtp(s) ==
    /\ pc[s] = "otpSubmit"
    /\ \/ /\ Fail(s, "ClickError")
          /\ \E tried \in {<<"otpFill">>, <<"otpFill", "otpSubmit">>} :
                trace' = [trace EXCEPT ![s].steps = @ \o tried]
          /\ UNCHANGED <<cookie, portalValid, issued>>
       \/ /\ issued < MaxTokens
          /\ issued' = issued + 1
          /\ portalValid' = portalValid \cup {issued + 1}
          /\ cookie' = [cookie EXCEPT ![s] = issued + 1]
          /\ pc' = [pc EXCEPT ![s] = NextStep("otpSubmit")]
          /\ trace' = [trace EXCEPT ![s].submitted = TRUE, ![s].accepted = "yes",
                                    ![s].steps = @ \o <<"otpFill", "otpSubmit">>]
          /\ UNCHANGED <<result, cause>>
       \/ /\ pc' = [pc EXCEPT ![s] = NextStep("otpSubmit")]
          /\ trace' = [trace EXCEPT ![s].submitted = TRUE, ![s].accepted = "no",
                                    ![s].steps = @ \o <<"otpFill", "otpSubmit">>]
          /\ UNCHANGED <<result, cause, cookie, portalValid, issued>>
    /\ UNCHANGED <<saved, question, calls, store>>
    /\ UNCHANGED <<scrapeVars, otpVars, jobVars, browserVars, storeVars, triggerVars>>

\* The portal ends a session (expiry, logout elsewhere) between two logins.
PortalExpire ==
    /\ \A s \in Sessions : Idle(s)
    /\ \E t \in portalValid : portalValid' = portalValid \ {t}
    /\ UNCHANGED <<store, issued, sessionVars, scrapeVars, otpVars, jobVars, browserVars, storeVars, triggerVars>>

(***************************************************************************)
(* getOTPWithBackoff (src/src/utils/getOTP.ts).  The URL and the roll      *)
(* number are not empty, as the front end and the job guarantee; the       *)
(* options hold at least one attempt.  A sleep and a lookup request are    *)
(* awaited calls and so one step each; the history variables record them.  *)
(***************************************************************************)
MaxOtpAttempts == 4
initialDelayMs == 10000
backoffFactor == 2
maxDelayMs == 30000
firstRetryDelayMs == 5000

\* The options after destructuring with the defaults.
DefaultOptions ==
    [maxAttempts |-> maxAttempts, initialDelayMs |-> initialDelayMs,
     backoffFactor |-> backoffFactor, maxDelayMs |-> maxDelayMs]

\* The options a caller may pass.
OtpOptions ==
    [maxAttempts : 1..MaxOtpAttempts, initialDelayMs : {0, initialDelayMs},
     backoffFactor : {1, backoffFactor, 3}, maxDelayMs : {4000, 12000, maxDelayMs}]

\* What awaiting fetch(url) and the body gives: a response with its status
\* and the otp field of its JSON body (0: absent, null, 0 or empty), or a
\* rejection (network failure).
HttpResponse(status, otp) == [rejected |-> FALSE, status |-> status, otp |-> otp]
NetworkFailure == [rejected |-> TRUE, status |-> 0, otp |-> 0]
OtpCodes == {4821, 907315}
LookupOutcomes ==
    {HttpResponse(200, c) : c \in OtpCodes}
        \cup {HttpResponse(200, 0), HttpResponse(404, 0), HttpResponse(500, 0),
              NetworkFailure}

\* A lookup that never finds a code in the response.
HasOtpNever(r) == FALSE

\* response.ok && data && data.otp
HasOtp(r) == ~r.rejected /\ r.status \in 200..299 /\ r.otp # 0

\* response.status === 404: the code is not there yet.
NotReady(r) == ~r.rejected /\ r.status = 404

\* The errors thrown inside the try block, each tagged with its attempt.
NoError == [attempt |-> 0, error |-> "none"]
ErrorOf(r, attempt) ==
    [attempt |-> attempt,
     error |-> IF r.rejected THEN "fetch failed"
               ELSE IF r.status \in 200..299 THEN "OTP was missing or empty"
               ELSE "API responded with HTTP"]

\* A catch block that also records a 404.
RecordErrorAlways(last, r, attempt) ==
    IF NotReady(r) THEN [attempt |-> attempt, error |-> "not ready"]
    ELSE ErrorOf(r, attempt)

\* lastError after the try/catch of an attempt without a code: the warn of a
\* 404 throws nothing, so the catch block does not run.
RecordError(last, r, attempt) ==
    IF NotReady(r) THEN last ELSE ErrorOf(r, attempt)

\* A loop whose catch block gives up on a hard error.
AfterAttemptAbortOnError(r, attempt, max) ==
    IF HasOtp(r) THEN "returned"
    ELSE IF attempt < max /\ NotReady(r) THEN "backoff"
    ELSE "thrown"

\* A loop that sleeps after every attempt, the last one too.
AfterAttemptAlwaysSleep(r, attempt, max) ==
    IF HasOtp(r) THEN "returned" ELSE "backoff"

\* Where the loop goes after an attempt: return otp, or sleep when
\* currentAttempt < maxAttempts, or leave the loop and throw finalError.
AfterAttempt(r, attempt, max) ==
    IF HasOtp(r) THEN "returned"
    ELSE IF attempt < max THEN "backoff"
    ELSE "thrown"

\* A delay that grows without the cap.
NextDelayUncapped(delay, factor, cap) == delay * factor

\* Math.min(currentDelayMs * backoffFactor, maxDelayMs)
NextDelay(delay, factor, cap) ==
    IF delay * factor <= cap THEN delay * factor ELSE cap

NoResult == [kind |-> "none", otp |-> 0, cause |-> NoError]
\* finalError, with lastError as its cause when lastError is not null.
OtpTimeout(last) == [kind |-> "OtpTimeout", otp |-> 0, cause |-> last]

\* A URL built with the time of the request.
RequestedAtNow(captured, now) == now

\* The requestedAt of the URL of a lookup: otpRequestTimestamp.
RequestedAt(captured, now) == captured

\* The timestamp is taken, then the initial sleep, then the locals of the loop.
\* A sleep and a fetch take time: the clock moves on at each of them.
OtpStart ==
    /\ otpPc = "start"
    /\ otpEnteredAt' = clock
    /\ otpRequestTimestamp' = clock
    /\ clock' = clock + 1
    /\ UNCHANGED <<otpRequests, otpEarlier>>
    /\ otpSleeps' = Append(otpSleeps, otpOptions.initialDelayMs)
    /\ currentAttempt' = 1
    /\ currentDelayMs' = firstRetryDelayMs
    /\ lastError' = NoError
    /\ otpPc' = "attempt"
    /\ UNCHANGED <<otpOptions, otpResult, otpResponses>>
    /\ UNCHANGED <<scrapeVars, sharedVars, sessionVars, jobVars, browserVars, storeVars, triggerVars>>

\* One turn of the while loop up to its sleep: the lookup request, the
\* try/catch, and, when the loop ends here, the throw of finalError.
OtpAttempt ==
    /\ otpPc = "attempt"
    /\ currentAttempt <= otpOptions.maxAttempts
    /\ \E r \in LookupOutcomes :
         LET next == AfterAttempt(r, currentAttempt, otpOptions.maxAttempts)
             err == RecordError(lastError, r, currentAttempt)
         IN /\ otpResponses' = Append(otpResponses, r)
            /\ otpRequests' =
                   Append(otpRequests, RequestedAt(otpRequestTimestamp, clock))
            /\ clock' = clock + 1
            /\ UNCHANGED <<otpRequestTimestamp, otpEnteredAt, otpEarlier>>
            /\ otpPc' = next
            /\ IF next = "returned"
               THEN /\ otpResult' = [kind |-> "otp", otp |-> r.otp, cause |-> NoError]
                    /\ UNCHANGED <<lastError, currentAttempt>>
               ELSE /\ lastError' = err
                    /\ IF next = "thrown"
                       THEN /\ currentAttempt' = currentAttempt + 1
                            /\ otpResult' = OtpTimeout(err)
                       ELSE UNCHANGED <<currentAttempt, otpResult>>
    /\ UNCHANGED <<otpOptions, currentDelayMs, otpSleeps>>
    /\ UNCHANGED <<scrapeVars, sharedVars, sessionVars, jobVars, browserVars, storeVars, triggerVars>>

\* The sleep between two attempts, the new delay, currentAttempt++ and the
\* test of the loop.
OtpBackoff ==
    /\ otpPc = "backoff"
    /\ clock' = clock + 1
    /\ UNCHANGED <<otpRequestTimestamp, otpRequests, otpEnteredAt, otpEarlier>>
    /\ otpSleeps' = Append(otpSleeps, currentDelayMs)
    /\ currentDelayMs' =
           NextDelay(currentDelayMs, otpOptions.backoffFactor, otpOptions.maxDelayMs)
    /\ currentAttempt' = currentAttempt + 1
    /\ IF currentAttempt + 1 <= otpOptions.maxAttempts
       THEN /\ otpPc' = "attempt"
            /\ UNCHANGED otpResult
       ELSE /\ otpPc' = "thrown"
            /\ otpResult' = OtpTimeout(lastError)
    /\ UNCHANGED <<otpOptions, lastError, otpResponses>>
    /\ UNCHANGED <<scrapeVars, sharedVars, sessionVars, jobVars, browserVars, storeVars, triggerVars>>

\* The function is called again after a call has ended: new locals, none of
\* them initialized yet (the module keeps no state between two calls).
MaxOtpCalls == 2
OtpAgain ==
    /\ otpPc \in {"returned", "thrown"}
    /\ Len(otpEarlier) < MaxOtpCalls - 1
    /\ otpEarlier' =
           Append(otpEarlier, [requestedAt |-> otpRequestTimestamp,
                               otp |-> otpResult.otp])
    /\ otpPc' = "start"
    /\ currentAttempt' = 0
    /\ currentDelayMs' = 0
    /\ lastError' = NoError
    /\ otpResult' = NoResult
    /\ otpResponses' = <<>>
    /\ otpSleeps' = <<>>
    /\ otpRequests' = <<>>
    /\ UNCHANGED <<otpOptions, clock, otpRequestTimestamp, otpEnteredAt>>
    /\ UNCHANGED <<scrapeVars, sharedVars, sessionVars, jobVars, browserVars, storeVars, triggerVars>>

(***************************************************************************)
(* scrapeNotices (src/unnamed/part_003), one job per session.  While the   *)
(* job awaits session.init() and session.login() its position is the one   *)
(* of the session (pc); scrape() is taken here by its outcome only, the     *)
(* crawl itself being the scrape machine above.                            *)
(***************************************************************************)
\* A close() whose catch block throws the teardown error again.
CloseRethrows(teardown) == teardown = "throws"

\* close()'s catch block logs the error of browser.close() and throws nothing.
CloseThrows(teardown) == FALSE

\* close(): if (this.browser) await this.browser.close(), inside a try/catch.
\* browser.close() resolves or rejects; this.browser is not reset.
Close(s) ==
    /\ closeCalls' = [closeCalls EXCEPT ![s] = @ + 1]
    /\ pc' = [pc EXCEPT ![s] = "closed"]
    /\ IF browser[s] # "none"
       THEN /\ teardowns' = [teardowns EXCEPT ![s] = @ + 1]
            /\ \E teardown \in {"ok", "throws"} :
                 /\ browser' =
                        [browser EXCEPT ![s] =
                             IF teardown = "ok" THEN "closed" ELSE "closeFailed"]
                 /\ closeRaised' = [closeRaised EXCEPT ![s] = CloseThrows(teardown)]
       ELSE /\ closeRaised' = [closeRaised EXCEPT ![s] = FALSE]
            /\ UNCHANGED <<browser, teardowns>>

\* A finally block that closes whatever the local holds.
FinallyClosesAlways(held) == TRUE

\* A finally block that never closes.
FinallyClosesNever(held) == FALSE

\* finally { if (session) await session.close(); }
FinallyCloses(held) == held

\* A job that posts an empty list too.
AfterScrapeAlwaysPost(n) == "close"

\* A job that posts before it closes the session.
AfterScrapeNoClose(n) == IF n = 0 THEN "finally" ELSE "post"

\* After scrape(): return on an empty list, else close and post.
AfterScrape(n) == IF n = 0 THEN "finally" ELSE "close"

\* A delivery that is tried once more after a failure.
AfterPostFailureRetry(sent) == IF sent < 2 THEN "post" ELSE "finally"

\* postNoticesToWebhook rethrows; scrapeNotices' catch block throws.
AfterPostFailure(sent) == "finally"

\* session = new ErpSession(...)
JobStart(s) ==
    /\ jobPc[s] = "start"
    /\ jobPc' = [jobPc EXCEPT ![s] = "session"]
    /\ session' = [session EXCEPT ![s] = TRUE]
    /\ UNCHANGED <<newNotices, completion, failedAt, closeCalls, posts>>
    /\ UNCHANGED <<scrapeVars, sharedVars, sessionVars, otpVars, browserVars, storeVars, triggerVars>>

\* await session.init()
JobInit(s) ==
    /\ jobPc[s] = "session"
    /\ SessionInit(s)

\* await session.login(), called once init() has returned.
JobLogin(s) ==
    /\ jobPc[s] = "session"
    /\ calls[s] = 0
    /\ LoginStart(s)

\* init() or login() threw: the catch block logs and throws the job's error.
JobSessionFailed(s) ==
    /\ jobPc[s] = "session"
    /\ \/ /\ pc[s] = "initFailed"
          /\ failedAt' = [failedAt EXCEPT ![s] = "init"]
       \/ /\ pc[s] = "ready"
          /\ calls[s] = 1
          /\ result[s] = "failed"
          /\ failedAt' = [failedAt EXCEPT ![s] = "login"]
    /\ completion' = [completion EXCEPT ![s] = "failed"]
    /\ jobPc' = [jobPc EXCEPT ![s] = "finally"]
    /\ UNCHANGED <<session, newNotices, closeCalls, posts>>
    /\ UNCHANGED <<scrapeVars, sharedVars, sessionVars, otpVars, browserVars, storeVars, triggerVars>>

\* A job that goes on to the scrape when login() threw.
ScrapeFollowsAnyLogin(outcome) == outcome \in {"ok", "failed"}

\* The statements after await session.login() run when it returned; when it
\* threw, the catch block runs instead.
ScrapeFollows(outcome) == outcome = "ok"

\* login() returned: await scraper.scrape(), which throws or returns a list.
JobScrape(s) ==
    /\ jobPc[s] = "session"
    /\ pc[s] = "ready"
    /\ calls[s] = 1
    /\ ScrapeFollows(result[s])
    /\ \/ /\ failedAt' = [failedAt EXCEPT ![s] = "scrape"]
          /\ completion' = [completion EXCEPT ![s] = "failed"]
          /\ jobPc' = [jobPc EXCEPT ![s] = "finally"]
          /\ UNCHANGED newNotices
       \/ \E n \in 0..MaxRows :
            /\ newNotices' = [newNotices EXCEPT ![s] = n]
            /\ jobPc' = [jobPc EXCEPT ![s] = AfterScrape(n)]
            /\ completion' =
                   [completion EXCEPT ![s] =
                        IF AfterScrape(n) = "finally" THEN "ok" ELSE @]
            /\ UNCHANGED failedAt
    /\ UNCHANGED <<session, closeCalls, posts>>
    /\ UNCHANGED <<scrapeVars, sharedVars, sessionVars, otpVars, browserVars, storeVars, triggerVars>>

\* if (session) { await session.close(); session = null; }  An error thrown
\* here would be caught by the catch block, with session still set.
JobClose(s) ==
    /\ jobPc[s] = "close"
    /\ IF session[s]
       THEN /\ Close(s)
            /\ IF closeRaised'[s]
               THEN /\ failedAt' = [failedAt EXCEPT ![s] = "close"]
                    /\ completion' = [completion EXCEPT ![s] = "failed"]
                    /\ jobPc' = [jobPc EXCEPT ![s] = "finally"]
                    /\ UNCHANGED session
               ELSE /\ session' = [session EXCEPT ![s] = FALSE]
                    /\ jobPc' = [jobPc EXCEPT ![s] = "post"]
                    /\ UNCHANGED <<failedAt, completion>>
       ELSE /\ jobPc' = [jobPc EXCEPT ![s] = "post"]
            /\ UNCHANGED <<closeCalls, pc, browserVars, session, failedAt, completion>>
    /\ UNCHANGED <<newNotices, posts>>
    /\ UNCHANGED <<cookie, saved, question, calls, result, cause, trace>>
    /\ UNCHANGED <<scrapeVars, sharedVars, otpVars, storeVars, triggerVars>>

\* await postNoticesToWebhook(...): one fetch; a response that is not ok or
\* a rejected fetch is logged and rethrown.
JobPost(s) ==
    /\ jobPc[s] = "post"
    /\ posts' = [posts EXCEPT ![s] = @ + 1]
    /\ \/ /\ completion' = [completion EXCEPT ![s] = "ok"]
          /\ jobPc' = [jobPc EXCEPT ![s] = "finally"]
          /\ UNCHANGED failedAt
       \/ /\ failedAt' = [failedAt EXCEPT ![s] = "post"]
          /\ jobPc' = [jobPc EXCEPT ![s] = AfterPostFailure(posts[s] + 1)]
          /\ completion' =
                 [completion EXCEPT ![s] =
                      IF AfterPostFailure(posts[s] + 1) = "finally"
                      THEN "failed" ELSE @]
    /\ UNCHANGED <<session, newNotices, closeCalls>>
    /\ UNCHANGED <<scrapeVars, sharedVars, sessionVars, otpVars, browserVars, storeVars, triggerVars>>

\* The finally block; after it the caller sees the job's outcome.  An error
\* thrown in a finally block replaces the completion of the try/catch.
JobFinally(s) ==
    /\ jobPc[s] = "finally"
    /\ IF FinallyCloses(session[s])
       THEN /\ Close(s)
            /\ completion' =
                   [completion EXCEPT ![s] = IF closeRaised'[s] THEN "failed" ELSE @]
       ELSE UNCHANGED <<closeCalls, pc, browserVars, completion>>
    /\ jobPc' = [jobPc EXCEPT ![s] = "done"]
    /\ UNCHANGED <<session, newNotices, failedAt, posts>>
    /\ UNCHANGED <<cookie, saved, question, calls, result, cause, trace>>
    /\ UNCHANGED <<scrapeVars, sharedVars, otpVars, storeVars, triggerVars>>

(***************************************************************************)
(* Concurrent saves of session.txt (saveSessionTokenToFile,                *)
(* src/unnamed/part_005).  Jobs run in one process and share the file      *)
(* without a lock.  fs.writeFile opens the file, which truncates it, and   *)
(* then writes the text from the start of the file; two calls whose        *)
(* execution overlaps are a race on the file, and a text written over a    *)
(* longer text that another call wrote after the truncation leaves a mix   *)
(* of the two.  Here a save stands for the login() call that makes it.     *)
(***************************************************************************)
\* A file content that no call wrote: the start of one token and the end of
\* another.
TornToken == 0 - 1

\* The content after the text t is written from the start of the file:
\* over an empty file or the same text, t; over another text, t or (that
\* text being longer) a mix.
WrittenOver(there, t) == IF there \in {NoToken, t} THEN {t} ELSE {t, TornToken}

\* await fs.writeFile(filePath, sessionToken, "utf8"), the open: the file is
\* created or truncated.
WriteOpen(s) ==
    /\ writing[s] = NoToken
    /\ calls[s] < MaxLogins
    /\ \E t \in Tokens : writing' = [writing EXCEPT ![s] = t]
    /\ calls' = [calls EXCEPT ![s] = @ + 1]
    /\ store' = NoToken
    /\ UNCHANGED <<writeLog, portalValid, issued>>
    /\ UNCHANGED <<pc, cookie, saved, question, result, cause, trace>>
    /\ UNCHANGED <<scrapeVars, otpVars, jobVars, browserVars, triggerVars>>

\* The write of the text and the close: the call is settled.
WriteData(s) ==
    /\ writing[s] # NoToken
    /\ store' \in WrittenOver(store, writing[s])
    /\ writeLog' = Append(writeLog, writing[s])
    /\ writing' = [writing EXCEPT ![s] = NoToken]
    /\ UNCHANGED <<portalValid, issued>>
    /\ UNCHANGED sessionVars
    /\ UNCHANGED <<scrapeVars, otpVars, jobVars, browserVars, triggerVars>>

(***************************************************************************)
(* The HTTP front end (POST /scrape-notices, src/unnamed/part_002), one    *)
(* trigger per job.  The job is taken here by its outcome only.            *)
(***************************************************************************)
NoResponse == 0

\* The request bodies: one that passes NoticeScrapeParamsSchema, one with a
\* malformed roll number, one with an unparsable lastKnownNoticeAt.
Bodies == {"valid", "badRollNo", "badDate"}
BodyValid(b) == b = "valid"

\* The server's environment: which of its URLs are set.
ServerEnvs == [NOTICE_WEBHOOK_URL : BOOLEAN, OTP_API_URL : BOOLEAN]

\* !ENV.NOTICE_WEBHOOK_URL || !ENV.NOTICE_WEBHOOK_URL || !ENV.OTP_API_URL
EnvMissing(ENV) == ~ENV.NOTICE_WEBHOOK_URL \/ ~ENV.NOTICE_WEBHOOK_URL \/ ~ENV.OTP_API_URL

\* A handler without the check of the environment.
TriggerStatusUnchecked(b, ENV) == IF ~BodyValid(b) THEN 400 ELSE 202

\* The status of the response: 400 from the validator, 500 on an incomplete
\* environment, else 202.
TriggerStatus(b, ENV) ==
    IF ~BodyValid(b) THEN 400
    ELSE IF EnvMissing(ENV) THEN 500
    ELSE 202

\* The validator and the handler: on 202 scrapeNotices(...) has been called
\* and runs in the background, a catch handler attached to its promise; the
\* response is returned without awaiting it.
HandleTrigger(s) ==
    /\ httpStatus[s] = NoResponse
    /\ LET status == TriggerStatus(body[s], serverEnv)
       IN /\ httpStatus' = [httpStatus EXCEPT ![s] = status]
          /\ background' =
                 [background EXCEPT ![s] = IF status = 202 THEN "running" ELSE @]
          /\ seenAtResponse' =
                 [seenAtResponse EXCEPT ![s] = IF status = 202 THEN "running" ELSE @]
    /\ UNCHANGED <<serverEnv, body, credentials>>
    /\ UNCHANGED <<scrapeVars, sharedVars, sessionVars, otpVars, jobVars, browserVars, storeVars>>

\* The job ends; the catch handler logs a failure and returns nothing to
\* anyone.
BackgroundEnd(s) ==
    /\ background[s] = "running"
    /\ \E outcome \in {"ok", "failed"} :
         background' = [background EXCEPT ![s] = outcome]
    /\ UNCHANGED <<serverEnv, body, credentials, httpStatus, seenAtResponse>>
    /\ UNCHANGED <<scrapeVars, sharedVars, sessionVars, otpVars, jobVars, browserVars, storeVars>>

(***************************************************************************)
(* Specifications                                                          *)
(***************************************************************************)
InitScrape ==
    /\ scrapePc = "start"
    /\ rowIdx = 1
    /\ notices = <<>>
    /\ examined = {}
    /\ processed = {}
    /\ scrapeError = "none"
    /\ openedTabs = {}
    /\ closedTabs = {}

InitLogin ==
    /\ store = NoToken
    /\ portalValid = {}
    /\ issued = 0
    /\ pc = [s \in Sessions |-> "new"]
    /\ cookie = [s \in Sessions |-> NoToken]
    /\ saved = [s \in Sessions |-> NoToken]
    /\ question = [s \in Sessions |-> <<>>]
    /\ calls = [s \in Sessions |-> 0]
    /\ result = [s \in Sessions |-> "none"]
    /\ cause = [s \in Sessions |-> "none"]
    /\ trace = [s \in Sessions |-> IdleTrace]

InitOtp ==
    /\ otpPc = "start"
    /\ currentAttempt = 0
    /\ currentDelayMs = 0
    /\ lastError = NoError
    /\ otpResult = NoResult
    /\ otpResponses = <<>>
    /\ otpSleeps = <<>>
    /\ clock = 0
    /\ otpRequestTimestamp = 0
    /\ otpRequests = <<>>
    /\ otpEnteredAt = 0
    /\ otpEarlier = <<>>

InitBrowser ==
    /\ browser = [s \in Sessions |-> "none"]
    /\ teardowns = [s \in Sessions |-> 0]
    /\ closeRaised = [s \in Sessions |-> FALSE]

InitStore ==
    /\ writing = [s \in Sessions |-> NoToken]
    /\ writeLog = <<>>

InitTrigger ==
    /\ httpStatus = [s \in Sessions |-> NoResponse]
    /\ background = [s \in Sessions |-> "none"]
    /\ seenAtResponse = [s \in Sessions |-> "none"]

\* The variables of the subsystems a specification leaves alone.
InitCredentials == credentials = [s \in Sessions |-> DefaultCredentials]

InitRest ==
    /\ InitBrowser
    /\ InitStore
    /\ InitCredentials
    /\ serverEnv = [NOTICE_WEBHOOK_URL |-> TRUE, OTP_API_URL |-> TRUE]
    /\ body = [s \in Sessions |-> "valid"]
    /\ InitTrigger

InitJob ==
    /\ jobPc = [s \in Sessions |-> "start"]
    /\ session = [s \in Sessions |-> FALSE]
    /\ newNotices = [s \in Sessions |-> 0]
    /\ completion = [s \in Sessions |-> "none"]
    /\ failedAt = [s \in Sessions |-> "none"]
    /\ closeCalls = [s \in Sessions |-> 0]
    /\ posts = [s \in Sessions |-> 0]

\* One scrape() call over any grid and watermark.
ScrapeInit ==
    /\ grid \in Grids
    /\ behaviour \in [1..Len(grid) -> SimpleBehaviours]
    /\ revision = "intercept"
    /\ lastKnownNoticeAt \in Watermarks
    /\ InitScrape
    /\ InitLogin
    /\ otpOptions = DefaultOptions
    /\ InitOtp
    /\ InitJob
    /\ InitRest

ScrapeNext == ScrapeNavigate \/ ScrapeRow \/ ScrapeReturn

SpecScrape == ScrapeInit /\ [][ScrapeNext]_vars

\* One scrape() call of either revision over a short grid, under every
\* behaviour of the portal, the browser and the storage at each row.
CrawlInit ==
    /\ grid \in CrawlGrids
    /\ behaviour \in [1..Len(grid) -> Behaviours]
    /\ revision \in Revisions
    /\ lastKnownNoticeAt = <<2023, 1, 1, 0, 0>>
    /\ InitScrape
    /\ InitLogin
    /\ otpOptions = DefaultOptions
    /\ InitOtp
    /\ InitJob
    /\ InitRest

SpecCrawl == CrawlInit /\ [][ScrapeNext]_vars

\* Every awaited call of scrape() that has a timeout, its own or the
\* browser library's default, settles, so a scrape() that can take a step
\* takes it; a call that awaits a promise nothing settles has no step.
SpecCrawlFair == SpecCrawl /\ WF_vars(ScrapeNext)

\* The sessions of the jobs, their login() calls and the session store.
LoginInit ==
    /\ grid = <<>>
    /\ behaviour = <<>>
    /\ revision = "intercept"
    /\ lastKnownNoticeAt = <<2023, 1, 1, 0, 0>>
    /\ InitScrape
    /\ InitLogin
    /\ otpOptions = DefaultOptions
    /\ InitOtp
    /\ InitJob
    /\ InitRest

LoginNext ==
    \/ \E s \in Sessions :
          \/ SessionInit(s)
          \/ LoginUninitialized(s)
          \/ LoginStart(s)
          \/ Probe1(s)
          \/ SaveSessionToken(s)
          \/ ReadStore(s)
          \/ Probe2(s)
          \/ NavigateToLoginPage(s)
          \/ FillCredentials(s)
          \/ HandleSecurityQuestion(s)
          \/ RequestOtp(s)
          \/ FetchOtp(s)
          \/ SubmitOtp(s)
    \/ PortalExpire

SpecLogin == LoginInit /\ [][LoginNext]_vars

\* One login() call on each of two sessions built with any credentials, on
\* a session that was initialized or not.
SecretsInit ==
    /\ grid = <<>>
    /\ behaviour = <<>>
    /\ revision = "intercept"
    /\ lastKnownNoticeAt = <<2023, 1, 1, 0, 0>>
    /\ InitScrape
    /\ InitLogin
    /\ otpOptions = DefaultOptions
    /\ InitOtp
    /\ InitJob
    /\ InitBrowser
    /\ InitStore
    /\ serverEnv = [NOTICE_WEBHOOK_URL |-> TRUE, OTP_API_URL |-> TRUE]
    /\ body = [s \in Sessions |-> "valid"]
    /\ credentials \in [Sessions -> Credentials]
    /\ InitTrigger

SecretsNext ==
    \E s \in Sessions :
        \/ SessionInit(s)
        \/ calls[s] = 0 /\ LoginUninitialized(s)
        \/ calls[s] = 0 /\ LoginStart(s)
        \/ Probe1(s)
        \/ SaveSessionToken(s)
        \/ ReadStore(s)
        \/ Probe2(s)
        \/ NavigateToLoginPage(s)
        \/ FillCredentials(s)
        \/ HandleSecurityQuestion(s)
        \/ RequestOtp(s)
        \/ FetchOtp(s)
        \/ SubmitOtp(s)

SpecSecrets == SecretsInit /\ [][SecretsNext]_vars

\* One getOTPWithBackoff call under any options and any service behaviour.
OtpInit ==
    /\ grid = <<>>
    /\ behaviour = <<>>
    /\ revision = "intercept"
    /\ lastKnownNoticeAt = <<2023, 1, 1, 0, 0>>
    /\ InitScrape
    /\ InitLogin
    /\ otpOptions \in OtpOptions
    /\ InitOtp
    /\ InitJob
    /\ InitRest

OtpNext == OtpStart \/ OtpAttempt \/ OtpBackoff

SpecOtp == OtpInit /\ [][OtpNext]_vars

\* The calls of getOTPWithBackoff one login() after the other makes: session.ts
\* passes no options, so each call runs with the defaults.
OtpCallsInit ==
    /\ OtpInit
    /\ otpOptions = DefaultOptions

OtpCallsNext == OtpNext \/ OtpAgain

SpecOtpCalls == OtpCallsInit /\ [][OtpCallsNext]_vars

\* A timer fires and a fetch settles (the HTTP client bounds the wait for
\* the response), so a call that can take a step takes it.
SpecOtpFair == SpecOtp /\ WF_vars(OtpNext)

\* The scrapeNotices jobs, each with its own session and browser, over the
\* shared portal and session store.  The portal keeps the tokens it issued
\* while the jobs run; their expiry is part of SpecLogin.
JobsInit ==
    /\ grid = <<>>
    /\ behaviour = <<>>
    /\ revision = "intercept"
    /\ lastKnownNoticeAt = <<2023, 1, 1, 0, 0>>
    /\ InitScrape
    /\ InitLogin
    /\ otpOptions = DefaultOptions
    /\ InitOtp
    /\ InitJob
    /\ InitRest

JobNext ==
    \E s \in Sessions :
          \/ JobStart(s)
          \/ JobInit(s)
          \/ JobLogin(s)
          \/ Probe1(s)
          \/ SaveSessionToken(s)
          \/ ReadStore(s)
          \/ Probe2(s)
          \/ NavigateToLoginPage(s)
          \/ FillCredentials(s)
          \/ HandleSecurityQuestion(s)
          \/ RequestOtp(s)
          \/ FetchOtp(s)
          \/ SubmitOtp(s)
          \/ JobSessionFailed(s)
          \/ JobScrape(s)
          \/ JobClose(s)
          \/ JobPost(s)
          \/ JobFinally(s)

SpecJob == JobsInit /\ [][JobNext]_vars

\* The saves of the jobs' login() calls on the shared session.txt.
StoreInit ==
    /\ grid = <<>>
    /\ behaviour = <<>>
    /\ revision = "intercept"
    /\ lastKnownNoticeAt = <<2023, 1, 1, 0, 0>>
    /\ InitScrape
    /\ InitLogin
    /\ otpOptions = DefaultOptions
    /\ InitOtp
    /\ InitJob
    /\ InitRest

StoreNext == \E s \in Sessions : WriteOpen(s) \/ WriteData(s)

SpecStore == StoreInit /\ [][StoreNext]_vars

\* The triggers the front end receives, under any environment.
TriggerInit ==
    /\ grid = <<>>
    /\ behaviour = <<>>
    /\ revision = "intercept"
    /\ lastKnownNoticeAt = <<2023, 1, 1, 0, 0>>
    /\ InitScrape
    /\ InitLogin
    /\ otpOptions = DefaultOptions
    /\ InitOtp
    /\ InitJob
    /\ InitBrowser
    /\ InitStore
    /\ serverEnv \in ServerEnvs
    /\ body \in [Sessions -> Bodies]
    /\ InitCredentials
    /\ InitTrigger

TriggerNext == \E s \in Sessions : HandleTrigger(s) \/ BackgroundEnd(s)

SpecTrigger == TriggerInit /\ [][TriggerNext]_vars

(***************************************************************************)
(* Properties of the crawl                                                 *)
(***************************************************************************)
\* The watermark and the timestamp of row r, as scrape() parses them.
LastKnownDate == ParseWatermark(lastKnownNoticeAt)
RowDate(r) == ParseNoticeAt(TrimCell(grid[r]))
Newer(r) == RowDate(r).valid /\ RowDate(r).t > LastKnownDate.t
AtOrBefore(r) == RowDate(r).valid /\ RowDate(r).t <= LastKnownDate.t
FirstAtOrBefore(k) == AtOrBefore(k) /\ \A j \in 1..(k - 1) : ~AtOrBefore(j)
Returned(r) == \E i \in 1..Len(notices) : notices[i].row = r

\* C1: every notice of the result comes from a row whose timestamp is
\* strictly greater than the watermark.
C1_OnlyNewerReturned == \A r \in 1..Len(grid) : Returned(r) => Newer(r)

\* C2: the row at which the first timestamp at or before the watermark is
\* found, and every row after it, is never handed to processRow and never in
\* the result; no row after it is even read.
C2_StopsAtFirstKnown ==
    \A k \in 1..Len(grid) :
        FirstAtOrBefore(k) =>
            \A r \in k..Len(grid) :
                /\ r \notin processed
                /\ ~Returned(r)
                /\ r > k => r \notin examined

\* C2, its case: a crawl that ended at a known row with newer rows after it.
C2_Witness ==
    /\ scrapePc = "done"
    /\ Len(notices) >= 1
    /\ \E k \in 1..Len(grid) :
          /\ FirstAtOrBefore(k)
          /\ k \in examined
          /\ \E r \in (k + 1)..Len(grid) : Newer(r)

\* C3: a row whose timestamp cannot be parsed is not in the result, the crawl
\* does not fail on it, and the rows after it are still read.
C3_UnparsableExcluded ==
    \A r \in 1..Len(grid) :
        ~RowDate(r).valid =>
            /\ ~Returned(r)
            /\ ~(r \in examined /\ rowIdx = r /\ scrapePc = "failed")
            /\ (r \in examined /\ scrapePc = "done" /\ r < Len(grid)
                  /\ ~\E k \in 1..Len(grid) : AtOrBefore(k))
               => (r + 1) \in examined

(***************************************************************************)
(* Properties of login()                                                   *)
(***************************************************************************)
Succeeded(s) == pc[s] = "ready" /\ result[s] = "ok"
NoCredentialWork(s) ==
    /\ trace[s].fills = 0
    /\ ~trace[s].answered
    /\ ~trace[s].otpClicked
    /\ trace[s].lookups = 0
    /\ ~trace[s].submitted

\* C4: a token written to the store by login() is one the portal accepts at
\* the time of the write.
C4_WritesOnlyVerified ==
    \A s \in Sessions : trace[s].wrote # NoToken => trace[s].wroteValid

\* C5: a login() whose submitted form the portal did not accept fails and
\* writes nothing to the store.
C5_RejectedLoginFails ==
    \A s \in Sessions :
        (trace[s].accepted = "no" /\ pc[s] = "ready") =>
            result[s] = "failed" /\ trace[s].wrote = NoToken

C7_RestoredTokenSkipsLogin ==
    \A s \in Sessions :
        /\ pc[s] = "probe2" =>
              /\ trace[s].probe1 = "stale"
              /\ saved[s] # NoToken
              /\ cookie[s] = saved[s]
        /\ (pc[s] \in {"nav", "fill", "question", "otpClick", "otpPoll",
                       "otpSubmit", "save"} /\ saved[s] # NoToken)
              => trace[s].probe2 = "stale"
        /\ trace[s].probe2 = "alive" => Succeeded(s) /\ NoCredentialWork(s)

\* C7, its case: a login() that returned on a restored token.
C7_Witness ==
    \E s \in Sessions :
        /\ trace[s].probe1 = "stale"
        /\ trace[s].probe2 = "alive"
        /\ Succeeded(s)
        /\ cookie[s] = saved[s]

\* C8: a login() whose restored token failed the probe, or that found no
\* persisted token, returns successfully only after the credentials were
\* filled, the challenge answered, an OTP obtained and the form submitted.
C8_FullLoginOnStaleToken ==
    \A s \in Sessions :
        (Succeeded(s) /\ (trace[s].probe2 = "stale"
                          \/ (trace[s].probe1 = "stale" /\ saved[s] = NoToken)))
        => /\ trace[s].fills = 2
           /\ trace[s].answered
           /\ trace[s].otpClicked
           /\ trace[s].otp /\ trace[s].lookups >= 1
           /\ trace[s].submitted

\* C8, its case: a successful login() after the restored token failed the probe.
C8_Witness ==
    \E s \in Sessions :
        Succeeded(s) /\ trace[s].probe2 = "stale" /\ trace[s].accepted = "yes"

\* C9: every successful login() wrote the cookie of its context to the store.
C9_EverySuccessWrites ==
    \A s \in Sessions :
        Succeeded(s) => trace[s].wrote # NoToken /\ trace[s].wrote = cookie[s]

\* C9, as amended: a successful login() wrote the cookie of its context to
\* the store, except on the restored-token path, where it wrote nothing and
\* its cookie is the token it read from the store.
C9_SuccessWritesUnlessRestored ==
    \A s \in Sessions :
        Succeeded(s) =>
            IF trace[s].probe2 = "alive"
            THEN /\ trace[s].wrote = NoToken
                 /\ saved[s] # NoToken
                 /\ cookie[s] = saved[s]
            ELSE /\ trace[s].wrote # NoToken
                 /\ trace[s].wrote = cookie[s]

\* C9, its case: one login() returned after writing, another on a restored token.
C9_Witness ==
    \E s, r \in Sessions :
        /\ Succeeded(s) /\ trace[s].wrote # NoToken
        /\ Succeeded(r) /\ trace[r].probe2 = "alive" /\ trace[r].wrote = NoToken

\* C10: when the answer map has no entry for the trimmed text the portal
\* displayed, login() has failed, with the missing answer as the caught
\* error when a text was displayed, and it made no OTP click and no OTP lookup.
C10_MissingAnswerFails ==
    \A s \in Sessions :
        (trace[s].asked /\ TrimText(question[s]) \notin DOMAIN securityAnswers)
        => /\ pc[s] = "ready"
           /\ result[s] = "failed"
           /\ TrimText(question[s]) # <<>> => cause[s] = "ChallengeAnswerMissing"
           /\ ~trace[s].otpClicked
           /\ trace[s].lookups = 0

\* C10, its case: the portal displayed a question, padded, that the map lacks.
C10_Witness ==
    \E s \in Sessions :
        /\ trace[s].asked
        /\ question[s] = <<" ", "b">>
        /\ cause[s] = "ChallengeAnswerMissing"
        /\ result[s] = "failed"

(***************************************************************************)
(* Properties of the OTP polling                                           *)
(***************************************************************************)
\* The lookup outcomes as the OTP service's contract names them.
CodeResponse(r) == ~r.rejected /\ r.status = 200 /\ r.otp \in OtpCodes
PendingResponse(r) == ~r.rejected /\ r.status = 404
HardError(r) == ~CodeResponse(r) /\ ~PendingResponse(r)
Lookups == Len(otpResponses)
OtpDone == otpPc \in {"returned", "thrown"}
OtpReturned(c) == otpPc = "returned" /\ otpResult.kind = "otp" /\ otpResult.otp = c
\* The sleeps between attempts: every sleep but the initial one.
RetrySleeps == IF otpSleeps = <<>> THEN <<>> ELSE Tail(otpSleeps)

\* C11: for every k up to maxAttempts, when the service answers 404 on the
\* attempts 1..k-1 and a valid code on attempt k, the call returns that code
\* and has issued exactly k lookup requests.
C11_CodeAfterPending ==
    /\ Lookups <= otpOptions.maxAttempts
    /\ \A k \in 1..Lookups :
         (/\ \A i \in 1..(k - 1) : PendingResponse(otpResponses[i])
          /\ CodeResponse(otpResponses[k]))
         => OtpReturned(otpResponses[k].otp) /\ Lookups = k

\* The code arrives on the last attempt, after only 404 answers.
C11_Witness ==
    /\ otpOptions.maxAttempts = 3
    /\ Lookups = 3
    /\ PendingResponse(otpResponses[1])
    /\ PendingResponse(otpResponses[2])
    /\ CodeResponse(otpResponses[3])
    /\ OtpReturned(otpResponses[3].otp)

\* The attempts that ended with a hard error, and the error of the last one.
HardAttempts == {i \in 1..Lookups : HardError(otpResponses[i])}
LastHardError ==
    IF HardAttempts = {} THEN NoError
    ELSE LET i == CHOOSE j \in HardAttempts : \A h \in HardAttempts : h <= j
         IN ErrorOf(otpResponses[i], i)

\* C12 as stated: a call that exhausts its attempts raises OtpTimeout whose
\* cause is the error of the last attempt, whatever the responses were.
C12_CauseIsLastAttempt ==
    otpPc = "thrown" =>
        /\ otpResult.kind = "OtpTimeout"
        /\ otpResult.cause.attempt = otpOptions.maxAttempts

\* C12: a call whose maxAttempts attempts all end without a code raises
\* OtpTimeout; its cause is the error of the most recent attempt that ended
\* with a hard error, and it has no cause when every attempt answered 404.
C12_CauseIsLastHardError ==
    /\ (Lookups = otpOptions.maxAttempts /\ ~CodeResponse(otpResponses[Lookups]))
           => otpPc = "thrown"
    /\ otpPc = "thrown" =>
           /\ Lookups = otpOptions.maxAttempts
           /\ otpResult.kind = "OtpTimeout"
           /\ otpResult.cause = LastHardError

\* The attempts are exhausted by a 404 after an earlier hard error.
C12_Witness ==
    /\ otpPc = "thrown"
    /\ PendingResponse(otpResponses[Lookups])
    /\ HardAttempts # {}
    /\ otpResult.cause.attempt < otpOptions.maxAttempts

\* C13: a hard error on an attempt does not end the polling: while attempts
\* remain the call goes on to the next attempt, and a valid code on a later
\* attempt is returned.
C13_HardErrorKeepsPolling ==
    \A i \in HardAttempts :
        /\ (i < otpOptions.maxAttempts /\ Lookups = i) => ~OtpDone
        /\ \A k \in (i + 1)..Lookups :
               CodeResponse(otpResponses[k]) => OtpReturned(otpResponses[k].otp)

\* A code is returned on the attempt after a network failure.
C13_Witness ==
    /\ Lookups = 3
    /\ otpResponses[2] = NetworkFailure
    /\ OtpReturned(otpResponses[3].otp)

\* What holds of the sleeps and the lookups at every moment of a call.
OtpBounds ==
    /\ otpPc = "start" => otpSleeps = <<>> /\ otpResponses = <<>>
    /\ otpPc # "start" =>
           /\ otpSleeps # <<>>
           /\ otpSleeps[1] = otpOptions.initialDelayMs
    /\ Lookups <= otpOptions.maxAttempts
    /\ Len(RetrySleeps) <= otpOptions.maxAttempts - 1
    /\ otpPc = "attempt" => Len(RetrySleeps) = Lookups
    /\ otpPc = "backoff" => Len(RetrySleeps) = Lookups - 1
    /\ OtpDone => Lookups >= 1 /\ Len(RetrySleeps) = Lookups - 1

Min(a, b) == IF a <= b THEN a ELSE b

\* d_1 = 5000 and d_(i+1) = min(d_i * backoffFactor, retryDelayCap)
RECURSIVE RetryDelay(_)
RetryDelay(i) ==
    IF i = 1 THEN 5000
    ELSE Min(RetryDelay(i - 1) * otpOptions.backoffFactor, otpOptions.maxDelayMs)

\* C15: the sleep after the i-th failed attempt lasts d_i; with the default
\* options the sleeps after the attempts 1, 2, 3 last 5000, 10000, 20000 ms.
C15_BackoffSchedule ==
    /\ \A i \in 1..Len(RetrySleeps) : RetrySleeps[i] = RetryDelay(i)
    /\ otpOptions = DefaultOptions =>
           \A i \in 1..Len(RetrySleeps) : RetrySleeps[i] = <<5000, 10000, 20000>>[i]

\* The three retry sleeps of a call with the default options.
C15_Witness ==
    /\ otpOptions = DefaultOptions
    /\ RetrySleeps = <<5000, 10000, 20000>>

(***************************************************************************)
(* Properties of the scrapeNotices job                                     *)
(***************************************************************************)
JobDone(s) == jobPc[s] = "done"
\* scrape() has returned its list to the job.
ScrapeReturned(s) ==
    jobPc[s] \notin {"start", "session"} /\ failedAt[s] \in {"none", "post"}

\* C16: in every run of scrapeNotices, whichever step fails or succeeds,
\* ErpSession.close() is invoked exactly once: never twice, and once by the
\* time the job ends.
C16_ClosedExactlyOnce ==
    \A s \in Sessions :
        /\ closeCalls[s] <= 1
        /\ JobDone(s) => closeCalls[s] = 1

\* One job has delivered its notices and another failed in init().
C16_Witness ==
    \E s, t \in Sessions :
        /\ JobDone(s) /\ posts[s] = 1 /\ completion[s] = "ok"
        /\ JobDone(t) /\ failedAt[t] = "init"
        /\ closeCalls[s] = 1 /\ closeCalls[t] = 1

\* C17: a failure of init(), login(), scrape() or the webhook delivery makes
\* the job end in failure, never in success, and the session has been closed
\* when the caller sees that failure.
C17_FailureAfterClose ==
    \A s \in Sessions :
        /\ failedAt[s] # "none" => completion[s] = "failed"
        /\ (JobDone(s) /\ completion[s] = "failed") =>
               closeCalls[s] = 1 /\ pc[s] = "closed"

\* One job failed in login() and another in the delivery.
C17_Witness ==
    \E s, t \in Sessions :
        /\ JobDone(s) /\ failedAt[s] = "login" /\ completion[s] = "failed"
        /\ JobDone(t) /\ failedAt[t] = "post" /\ completion[t] = "failed"

\* C18: when scrape() returns no notice the job finishes successfully and
\* issues no webhook POST.
C18_EmptyResultNoPost ==
    \A s \in Sessions :
        (ScrapeReturned(s) /\ newNotices[s] = 0) =>
            /\ posts[s] = 0
            /\ completion[s] = "ok"
            /\ jobPc[s] \in {"finally", "done"}

\* A job that ended after an empty scrape.
C18_Witness ==
    \E s \in Sessions :
        /\ JobDone(s)
        /\ ScrapeReturned(s)
        /\ newNotices[s] = 0
        /\ completion[s] = "ok"

\* C19: when scrape() returns at least one notice the session is closed
\* before the webhook POST is issued: the job is about to post, or has
\* posted, only with its session closed.
C19_ClosedBeforePost ==
    \A s \in Sessions :
        (jobPc[s] = "post" \/ posts[s] > 0) =>
            /\ newNotices[s] >= 1
            /\ closeCalls[s] = 1
            /\ pc[s] = "closed"

\* A job has posted its notices.
C19_Witness ==
    \E s \in Sessions : posts[s] = 1 /\ newNotices[s] >= 1 /\ closeCalls[s] = 1

\* C20: a job issues at most one webhook POST; a response that is not 2xx
\* or a network failure is not retried and makes the job end in failure.
C20_SinglePostNoRetry ==
    \A s \in Sessions :
        /\ posts[s] <= 1
        /\ failedAt[s] = "post" =>
               /\ posts[s] = 1
               /\ completion[s] = "failed"
               /\ jobPc[s] \in {"finally", "done"}

\* A job that ended in failure after its only POST failed.
C20_Witness ==
    \E s \in Sessions :
        /\ JobDone(s)
        /\ failedAt[s] = "post"
        /\ posts[s] = 1
        /\ completion[s] = "failed"

\* C21: close() never raises: a failure of browser.close() is absorbed, and
\* on a session whose browser was never started close() does nothing; so a
\* job fails only through a failure of one of its own steps, never through
\* close().
C21_CloseNeverRaises ==
    \A s \in Sessions :
        /\ ~closeRaised[s]
        /\ failedAt[s] # "close"
        /\ browser[s] = "none" => teardowns[s] = 0
        /\ JobDone(s) => (completion[s] = "failed" <=> failedAt[s] # "none")

\* One job ended successfully although the teardown of its browser failed,
\* and another closed a session whose browser was never started.
C21_Witness ==
    \E s, t \in Sessions :
        /\ JobDone(s) /\ browser[s] = "closeFailed" /\ completion[s] = "ok"
        /\ JobDone(t) /\ browser[t] = "none" /\ closeCalls[t] = 1

(***************************************************************************)
(* Properties of the session store under concurrent jobs                   *)
(***************************************************************************)
WrittenTokens == {writeLog[i] : i \in 1..Len(writeLog)}
NoWriteInFlight == \A s \in Sessions : writing[s] = NoToken

\* C26 as stated: with concurrent jobs the store holds at most one token,
\* which is a token some job wrote, and when no job is writing any more it
\* is the token of the last write.
C26_LastWriterWins ==
    /\ store \in {NoToken} \cup WrittenTokens
    /\ (NoWriteInFlight /\ writeLog # <<>>) => store = writeLog[Len(writeLog)]

(***************************************************************************)
(* Properties of the HTTP front end                                        *)
(***************************************************************************)
Responded(s) == httpStatus[s] # NoResponse

\* C29 as stated: the response to a valid trigger is "accepted", sent while
\* the job is still running, and stays the same whatever the job's outcome.
C29_ValidTriggerAccepted ==
    \A s \in Sessions :
        (BodyValid(body[s]) /\ Responded(s)) =>
            httpStatus[s] = 202 /\ seenAtResponse[s] = "running"

\* C29: when the server has its webhook and OTP service URLs, the response
\* to a valid trigger is "accepted" (202), sent without waiting for the job
\* and the same whether the job later succeeds or fails; when one of them is
\* missing the response is 500 and no job is started.  A failure of the job
\* is never reported to the caller.
C29_AcceptedWhenConfigured ==
    \A s \in Sessions :
        (BodyValid(body[s]) /\ Responded(s)) =>
            IF serverEnv.NOTICE_WEBHOOK_URL /\ serverEnv.OTP_API_URL
            THEN httpStatus[s] = 202 /\ seenAtResponse[s] = "running"
            ELSE httpStatus[s] = 500 /\ background[s] = "none"

\* A job failed after its trigger was accepted, and the response is still
\* the accepted one.
C29_Witness ==
    \E s \in Sessions :
        /\ BodyValid(body[s])
        /\ httpStatus[s] = 202
        /\ background[s] = "failed"

(***************************************************************************)
(* Properties of the crawl, row by row                                     *)
(***************************************************************************)
\* The notice of the result that came from row r.
NoticeOf(r) == notices[CHOOSE i \in 1..Len(notices) : notices[i].row = r]
\* processRow was called for row r and has returned or thrown.
RowEnded(r) == r \in processed /\ rowIdx > r
ScrapeEnded == scrapePc \in {"done", "failed"}

\* C22 as stated: whatever fails while a row is processed, scrape() goes on
\* to the next row, so that the later rows are still processed.
C22_RowFailureSkipsOneRow ==
    \A r \in 1..MaxCrawlRows : (r \in processed) ~> (rowIdx > r)

\* C23 as stated: a processed row whose detail view failed is in the result,
\* with the title attribute (empty when there is none) as its text.
C23_DetailFailureKeepsRow ==
    \A r \in 1..Len(grid) :
        (RowEnded(r) /\ behaviour[r].detail = "fails" /\ behaviour[r].link = "other")
            => /\ Returned(r)
               /\ NoticeOf(r).noticeText =
                      IF behaviour[r].title = "text" THEN "title" ELSE ""

\* C23: a failure of the detail view does not fail the row: the text of the
\* notice is the title attribute of its link (empty when the link has no
\* title), and the row is in the result when the rest of its processing
\* succeeds; when the read of the title attribute throws as well, the row is
\* left out.
C23_TitleFallback ==
    \A r \in 1..Len(grid) :
        (RowEnded(r) /\ behaviour[r].detail = "fails") =>
            /\ Returned(r) =>
                   NoticeOf(r).noticeText =
                       IF behaviour[r].title = "text" THEN "title" ELSE ""
            /\ (behaviour[r].title # "throws" /\ behaviour[r].link = "other")
                   => Returned(r)
            /\ behaviour[r].title = "throws" => ~Returned(r)

\* A crawl returned two rows whose detail view failed, one with a title and
\* one without.
C23_Witness ==
    /\ scrapePc = "done"
    /\ \E r, q \in 1..Len(grid) :
          /\ behaviour[r].detail = "fails" /\ behaviour[q].detail = "fails"
          /\ Returned(r) /\ NoticeOf(r).noticeText = "title"
          /\ Returned(q) /\ NoticeOf(q).noticeText = ""

\* C24 as stated: a row with a Download link whose cells and text were read
\* is in the result once it has been processed, whatever fails while its
\* attachment is resolved.
C24_AttachmentFailureKeepsRow ==
    \A r \in 1..Len(grid) :
        ( /\ RowEnded(r)
          /\ behaviour[r].fields = "ok"
          /\ behaviour[r].detail = "content"
          /\ behaviour[r].link = "Download" )
            => Returned(r)

\* The grid is sorted newest-first: every timestamp parses and none is later
\* than the one above it.
GridSorted ==
    \A r \in 1..Len(grid) :
        /\ RowDate(r).valid
        /\ r > 1 => DateLe(RowDate(r), RowDate(r - 1))

\* C25: the notices of the result are in the order of their rows in the
\* grid; for a grid sorted newest-first they are in descending order of
\* timestamp.
C25_GridOrderKept ==
    \A i, j \in 1..Len(notices) :
        i < j =>
            /\ notices[i].row < notices[j].row
            /\ GridSorted => DateLe(RowDate(notices[j].row), RowDate(notices[i].row))

\* A crawl of a sorted grid returned two notices of different timestamps.
C25_Witness ==
    /\ scrapePc = "done"
    /\ GridSorted
    /\ Len(notices) = 2
    /\ RowDate(notices[1].row).t > RowDate(notices[2].row).t

\* C27: close() has been called on the auxiliary tab of a row when
\* uploadDocument has ended for that row, however it ended; so every tab
\* that was opened has been closed when scrape() has returned or thrown.
C27_TabsClosed ==
    /\ \A r \in openedTabs : rowIdx > r => r \in closedTabs
    /\ ScrapeEnded => openedTabs \subseteq closedTabs

\* A crawl ended after a recovery that returned a URL and one that ended in
\* the catch block.
C27_Witness ==
    /\ ScrapeEnded
    /\ \E r, q \in closedTabs :
          /\ Returned(r) /\ NoticeOf(r).documentUrl # NoDocument
          /\ Returned(q) /\ NoticeOf(q).documentUrl = NoDocument

\* C28 as stated: a document recovery that has opened its tab ends.
C28_RecoveryReturns ==
    \A r \in 1..MaxCrawlRows : (r \in openedTabs) ~> (r \in closedTabs)

\* C30: over a grid with no rows scrape() does not throw for the lack of
\* rows and returns the empty list.
C30_EmptyGridEmptyResult ==
    Len(grid) = 0 =>
        /\ scrapePc \in {"start", "done", "failed"}
        /\ scrapePc = "failed" => scrapeError = "navigation"
        /\ scrapePc = "done" => notices = <<>>

\* scrape() has returned over an empty grid.
C30_Witness ==
    /\ Len(grid) = 0
    /\ scrapePc = "done"
    /\ notices = <<>>
    /\ scrapeError = "none"

(***************************************************************************)
(* Properties of the order and of the effects of login()                   *)
(***************************************************************************)
\* The steps of the full login, in the order of lines 310-315 and 373-382.
FullLoginSteps ==
    <<"nav", "fill", "question", "otpClick", "otpPoll", "otpFill", "otpSubmit",
      "save">>
IsPrefix(a, b) == Len(a) <= Len(b) /\ a = SubSeq(b, 1, Len(a))
StepsOf(s) == trace[s].steps
LastStep(s) == StepsOf(s)[Len(StepsOf(s))]
\* The steps at which each error of the login is raised.
StepsRaising(c) ==
    CASE c = "NavigationError" -> {"nav"}
      [] c = "FillError" -> {"fill"}
      [] c \in {"SelectorTimeout", "QuestionTextMissing", "ChallengeAnswerMissing"}
             -> {"question"}
      [] c = "ClickError" -> {"otpClick", "otpFill", "otpSubmit"}
      [] c = "OtpTimeout" -> {"otpPoll"}
      [] c = "SessionTokenMissing" -> {"save"}
      [] OTHER -> {}
\* The call of login() on s took the full path.
OnFullPath(s) == trace[s].probe1 = "stale" /\ trace[s].probe2 # "alive"

\* C31: the steps a login() call has attempted are always a beginning of the
\* sequence navigate, fill, challenge, OTP trigger, OTP poll, OTP fill, submit,
\* persist (so each at most once, in this order, none retried); a call that
\* failed at a step attempted no step after it, and a call that succeeded on
\* the full path attempted them all.
C31_StepsInOrder ==
    \A s \in Sessions :
        /\ IF trace[s].probe1 = "alive"
           THEN StepsOf(s) \in {<<>>, <<"save">>}
           ELSE IsPrefix(StepsOf(s), FullLoginSteps)
        /\ (result[s] = "failed" /\ StepsOf(s) # <<>>)
               => pc[s] = "ready" /\ LastStep(s) \in StepsRaising(cause[s])
        /\ (result[s] = "ok" /\ OnFullPath(s)) => StepsOf(s) = FullLoginSteps
        /\ pc[s] \in {"nav", "fill", "question", "otpClick", "otpPoll", "save"}
               => FullLoginSteps[Len(StepsOf(s)) + 1] = pc[s]
        /\ pc[s] = "otpSubmit" => Len(StepsOf(s)) = 5

\* One call went through the whole login and another stopped at the OTP poll.
C31_Witness ==
    \E s, t \in Sessions :
        /\ result[s] = "ok" /\ StepsOf(s) = FullLoginSteps
        /\ result[t] = "failed" /\ cause[t] = "OtpTimeout"
        /\ StepsOf(t) = SubSeq(FullLoginSteps, 1, 5)

C33_OneTimestampPerCall ==
    /\ Len(otpRequests) = Len(otpResponses)
    /\ \A i \in 1..Len(otpRequests) : otpRequests[i] = otpEnteredAt
    /\ otpPc # "start" => otpRequestTimestamp = otpEnteredAt /\ otpEnteredAt < clock
    /\ \A e \in 1..Len(otpEarlier) :
           /\ otpPc # "start" => otpEarlier[e].requestedAt < otpEnteredAt
           /\ \A i \in 1..Len(otpRequests) : otpRequests[i] # otpEarlier[e].requestedAt
    /\ otpPc = "returned" =>
           /\ otpRequests # <<>>
           /\ otpResult.otp = otpResponses[Len(otpResponses)].otp
    /\ otpPc \in {"start", "attempt", "backoff"} => otpResult = NoResult

\* A second call polls three times and returns a code other than the code
\* the first call returned.
C33_Witness ==
    /\ Len(otpEarlier) = 1
    /\ otpEarlier[1].otp = 4821
    /\ otpPc = "returned"
    /\ otpResult.otp = 907315
    /\ Len(otpRequests) = 3
    /\ otpRequests[1] = otpRequests[3]

\* C34: under every configuration every retry sleep lasts at most the cap
\* maxDelayMs, and the retry sleeps of a call never decrease.
C34_RetrySleepsCappedAndMonotone ==
    /\ \A i \in 1..Len(RetrySleeps) : RetrySleeps[i] <= otpOptions.maxDelayMs
    /\ \A i \in 1..(Len(RetrySleeps) - 1) : RetrySleeps[i] <= RetrySleeps[i + 1]

(***************************************************************************)
(* Properties of the order of the phases of a job                          *)
(***************************************************************************)
\* scrape() was started by the job of s: it threw or it returned.
ScrapeStarted(s) == failedAt[s] = "scrape" \/ ScrapeReturned(s)

\* C35: the phases of a job follow init, login, scrape, delivery: login() is
\* called only after init() returned, scrape() is started only after login()
\* returned without an error, and the webhook POST is issued only after
\* scrape() returned its list.
C35_PhasesInOrder ==
    \A s \in Sessions :
        /\ calls[s] > 0 => pc[s] \notin {"new", "initFailed"} /\ browser[s] # "none"
        /\ ScrapeStarted(s) => calls[s] = 1 /\ result[s] = "ok"
        /\ posts[s] > 0 => ScrapeReturned(s) /\ failedAt[s] # "scrape"
        /\ failedAt[s] \in {"init", "login"} => ~ScrapeStarted(s) /\ posts[s] = 0
        /\ result[s] \in {"running", "failed"} => ~ScrapeStarted(s) /\ posts[s] = 0

\* One job delivered its notices; the login of another failed and it neither
\* scraped nor posted.
C35_Witness ==
    \E s, t \in Sessions :
        /\ posts[s] = 1 /\ result[s] = "ok" /\ newNotices[s] > 0
        /\ failedAt[t] = "login" /\ jobPc[t] = "done" /\ posts[t] = 0

(***************************************************************************)
(* Properties of the error login() raises                                  *)
(***************************************************************************)
LoginFailed(s) == result[s] = "failed"
\* The error the failed login() of s threw to its caller.
Raised(s) == LoginError(cause[s], credentials[s])
\* login() found no page: init() had not been completed on the session.
WithoutPage(s) == cause[s] = "BrowserNotInitialized"
SecretsDiffer(s, t) ==
    \/ credentials[s].password # credentials[t].password
    \/ credentials[s].securityAnswers # credentials[t].securityAnswers

\* C36 as stated: two failed login() runs with the same identifier and
\* different passwords or answers raise errors of identical content.
C36_ErrorDependsOnIdentifierOnly ==
    \A s, t \in Sessions :
        (LoginFailed(s) /\ LoginFailed(t)
            /\ credentials[s].rollNo = credentials[t].rollNo
            /\ SecretsDiffer(s, t))
        => Raised(s) = Raised(t)

\* C36: the error of a failed login() depends only on the identifier and on
\* whether the session had a page: two failed runs with the same identifier,
\* both on an initialized session or both not, raise errors of identical
\* content whatever their passwords and answers; the error holds neither the
\* password nor an answer, and on a session without a page not the identifier.
C36_ErrorHidesSecrets ==
    \A s, t \in Sessions :
        /\ (LoginFailed(s) /\ LoginFailed(t)
               /\ credentials[s].rollNo = credentials[t].rollNo
               /\ (WithoutPage(s) <=> WithoutPage(t)))
           => Raised(s) = Raised(t)
        /\ LoginFailed(s) =>
               /\ Raised(s).detail = ""
               /\ Raised(s).rollNo = IF WithoutPage(s) THEN "" ELSE credentials[s].rollNo

\* Two runs with one identifier, different passwords and different answers
\* fail at different steps, one at the missing answer and one at the OTP.
C36_Witness ==
    \E s, t \in Sessions :
        /\ LoginFailed(s) /\ cause[s] = "ChallengeAnswerMissing"
        /\ LoginFailed(t) /\ cause[t] = "OtpTimeout"
        /\ credentials[s].rollNo = credentials[t].rollNo
        /\ credentials[s].password # credentials[t].password
        /\ credentials[s].securityAnswers # credentials[t].securityAnswers
        /\ Raised(s) = Raised(t)

(***************************************************************************)
(* Completeness of the crawl                                               *)
(***************************************************************************)
\* The processing of no row failed: processRow returned for every row it
\* was called for.
NoRowFailed ==
    \A r \in processed : ProcessRow(behaviour[r], revision).kind = "returns"
NewerRows == {r \in 1..Len(grid) : Newer(r)}

\* C37: over a grid sorted newest-first whose timestamps all parse, when the
\* processing of no row fails, the list scrape() returns holds one notice
\* for each row whose timestamp is strictly greater than the watermark, each
\* with the timestamp of its row, and nothing else.
C37_CrawlComplete ==
    (scrapePc = "done" /\ GridSorted /\ NoRowFailed) =>
        /\ \A r \in 1..Len(grid) : Returned(r) <=> Newer(r)
        /\ Len(notices) = Cardinality(NewerRows)
        /\ \A i \in 1..Len(notices) :
               /\ notices[i].row \in NewerRows
               /\ notices[i].noticeAt = TrimCell(grid[notices[i].row])
               /\ \A j \in 1..Len(notices) : notices[j].row = notices[i].row => j = i

\* A crawl over three sorted rows returned the two newer than the watermark
\* and stopped at the third.
C37_Witness ==
    /\ scrapePc = "done"
    /\ GridSorted
    /\ NoRowFailed
    /\ Len(grid) = 3
    /\ Newer(1) /\ Newer(2) /\ AtOrBefore(3)
    /\ Len(notices) = 2
    /\ notices[1].row = 1 /\ notices[2].row = 2

====
